---- MODULE Spec2Model ----
(***************************************************************************)
(* A model of the autonomous core of rpauts2/autopost:                     *)
(*   - core/scheduler.py   Scheduler (tick loop, monitor preemption)       *)
(*   - core/entity.py      Entity.start / Entity.stop / content cycle      *)
(*   - core/advanced_scheduler.py  AdvancedScheduler (night mode, times)   *)
(*   - core/intent_loop.py IntentLoop.run_cycle                            *)
(*   - core/orchestrator.py Orchestrator.execute                           *)
(* Each component has its own specification (SpecSched, SpecAdv,           *)
(* SpecCycle, SpecPipe); the variables of the other components stay at     *)
(* their initial values.  Time is an integer clock in abstract units;      *)
(* None is written -1.  Urgencies are in hundredths (0.6 = 60).            *)
(***************************************************************************)
EXTENDS Integers, Sequences, FiniteSets, TLC

None == -1

(***************************************************************************)
(* Bounds and program constants                                            *)
(***************************************************************************)
\* last clock value explored by the Scheduler model
MaxClock == 3
\* number of Entity.start() calls explored
MaxStarts == 1
\* Scheduler.check_interval, in clock units (SCHEDULER_CHECK_INTERVAL scaled)
CheckInterval == 1
\* interval of content_creation_cycle (3600 s scaled to clock units)
ContentInterval == 2
\* interval of memory_refactoring (604800 s scaled to clock units)
RefactorInterval == 3
\* scheduler.py:78  urgent_trigger.urgency >= 0.6
PreemptionThreshold == 60

\* entity.py:126-139: registration order of the two tasks
TaskNames == <<"content_creation_cycle", "memory_refactoring">>
TaskIntervals == <<ContentInterval, RefactorInterval>>
NTasks == Len(TaskNames)
TaskIds == 1..NTasks

\* scheduler.py:81  next((t for t in self.tasks if t["name"] == "content_creation_cycle"), None)
ContentIdx == CHOOSE i \in TaskIds :
                 /\ TaskNames[i] = "content_creation_cycle"
                 /\ \A j \in TaskIds : TaskNames[j] = "content_creation_cycle" => i <= j

\* outcomes of InternalStateMonitor.check_state() as seen by the scheduler:
\* -2 = check_state raised, -1 = no trigger, otherwise the urgency of the
\* most urgent trigger (get_most_urgent_trigger), in hundredths
MonitorRaised == -2
NoTrigger == -1
UrgencyValues == {40, 50, 60, 70, 90}
MonitorOutcomes == {MonitorRaised, NoTrigger} \cup UrgencyValues

VARIABLES
  \* ---- Scheduler + Entity ----
  clock,          \* datetime.now()
  tasks,          \* Scheduler.tasks: sequence of task records
  running,        \* Scheduler.running
  loopPc,         \* position of the Scheduler._run coroutine
  now,            \* local `now` of the current tick
  idx,            \* position of `for task in self.tasks`
  wake,           \* earliest clock at which asyncio.sleep returns
  urgency,        \* monitor outcome of the current tick
  cbState,        \* per task: is its callback executing
  entityRunning,  \* Entity.running
  initPending,    \* fire-and-forget cycles created by Entity.start, not begun
  initRunning,    \* fire-and-forget cycles suspended inside the pipeline
  starts,         \* number of Entity.start() calls so far
  evaluated,      \* history: task slots evaluated in the current tick
  started,        \* history: tasks whose callback was started in the current tick
  raised,         \* history: tasks whose callback raised in the current tick
  \* ---- AdvancedScheduler ----
  aClock,         \* datetime.now()
  aTasks,         \* AdvancedScheduler.tasks
  aRunning,       \* AdvancedScheduler.running
  aPc,            \* position of the AdvancedScheduler._run coroutine
  aNow,           \* local `now` of the current tick (advanced_scheduler.py:162)
  aIdx,           \* position of `for task in self.tasks`
  aWake,          \* earliest clock at which asyncio.sleep returns
  nightEnabled,   \* night_mode_enabled
  nightStart,     \* night_mode_start (time of day)
  nightEnd,       \* night_mode_end (time of day)
  aLastEval,      \* history: per time-of-day task, the clock of the last
                  \* evaluation of its slot that night mode did not suppress
  aRan,           \* history: per task, has its callback ever been started
  aLoops,         \* history: number of _run tasks created and not yet finished
  \* ---- IntentLoop.run_cycle ----
  cyPc,           \* position of run_cycle: the phase awaited, or its outcome
  cyPhases,       \* history: phases invoked in the current cycle, in order
  currentCycle,   \* IntentLoop._current_cycle
  cySkip,         \* the "skip" flag think put in thought.considerations
  cyIntent,       \* kind of object form_intent returned
  cyConfidence,   \* intent.confidence, in hundredths (None before form_intent)
  cyExecuted,     \* action.executed
  cyFailed,       \* history: has a phase raised in the current cycle
  cyReflection,   \* the Reflection run_cycle returned: [success, should_retry]
  cyCount,        \* number of run_cycle calls so far
  \* ---- Orchestrator.execute ----
  pPc,            \* position of execute
  pIdx,           \* position of `for name in self.pipeline`
  pAgents,        \* names with an implementation in self.agents
  pRegistered,    \* the names of self.agents in the order they were put there
  pCtx,           \* the context passed by the caller
  pShared,        \* shared_data, the blackboard
  pInvoked,       \* history: pipeline positions whose unit was invoked
  pFailedAt,      \* history: position of the unit that raised (0 if none)
  pAtInvoke,      \* history: the blackboard when the last unit was invoked
  pLastWrite      \* history: per key, the value last returned by a unit of the run

schedVars == <<clock, tasks, running, loopPc, now, idx, wake, urgency, cbState,
               entityRunning, initPending, initRunning, starts,
               evaluated, started, raised>>

advVars == <<aClock, aTasks, aRunning, aPc, aNow, aIdx, aWake,
             nightEnabled, nightStart, nightEnd, aLastEval, aRan, aLoops>>

cycleVars == <<cyPc, cyPhases, currentCycle, cySkip, cyIntent, cyConfidence,
               cyExecuted, cyFailed, cyReflection, cyCount>>

pipeVars == <<pPc, pIdx, pAgents, pRegistered, pCtx, pShared, pInvoked, pFailedAt, pAtInvoke,
              pLastWrite>>

VARIABLES
  mStore,         \* the content_entries table, as ORDER BY timestamp DESC lists it
  mGoals,         \* the goal configuration the monitor holds
  mClock,         \* datetime.now(timezone.utc), in units of six hours
  triggers,       \* InternalStateMonitor.triggers
  mPrevTriggers,  \* history: self.triggers before the last check_state call
  mFailed,        \* history: the rules whose except clause ran in the last call
  mFresh,         \* history: no input changed since the last check_state call
                  \* (the two histories above are kept only while mFresh)
  mAdds           \* number of add_content calls so far

monVars == <<mStore, mGoals, mClock, triggers, mPrevTriggers, mFailed, mFresh, mAdds>>

VARIABLES
  tension,        \* Personality.tension
  boldness,       \* Personality.boldness
  depth,          \* Personality.depth
  driftRate,      \* Personality.drift_rate
  lastUpdate,     \* Personality.last_update, counted in drift calls
  pFile,          \* the content of personality.json
  pPrevBoldness,  \* history: boldness before the last drift call
  pDrifts         \* number of drift calls with arbitrary experience so far

persVars == <<tension, boldness, depth, driftRate, lastUpdate, pFile, pPrevBoldness, pDrifts>>

VARIABLES
  xEntries,  \* the memory_entries table, newest first
  xBackend,  \* what loading the embedding model does on this installation
  xResult,   \* the outcome of the last memory operation
  xFirst,    \* history: each id with the record first stored under it
  xAdds      \* number of add calls so far

idxVars == <<xEntries, xBackend, xResult, xFirst, xAdds>>

VARIABLES
  rClock,        \* datetime.now(), in clock units
  requestTimes,  \* RateLimiter.request_times, oldest first
  rPc,           \* per caller: where it stands in wait_for_slot
  rWake,         \* per caller: earliest clock at which its asyncio.sleep returns
  rLast,         \* the caller and return value of the last acquire() call
  rGranted       \* history: per clock value, the number of slots granted then

rateVars == <<rClock, requestTimes, rPc, rWake, rLast, rGranted>>

vars == <<schedVars, advVars, cycleVars, pipeVars, monVars, persVars, idxVars,
          rateVars>>

\* the variables of the other components, left alone by a component's actions
notSched == <<advVars, cycleVars, pipeVars, monVars, persVars, idxVars, rateVars>>
notAdv == <<schedVars, cycleVars, pipeVars, monVars, persVars, idxVars, rateVars>>
notCycle == <<schedVars, advVars, pipeVars, monVars, persVars, idxVars, rateVars>>
notPipe == <<schedVars, advVars, cycleVars, monVars, persVars, idxVars, rateVars>>
notMon == <<schedVars, advVars, cycleVars, pipeVars, persVars, idxVars, rateVars>>
notPers == <<schedVars, advVars, cycleVars, pipeVars, monVars, idxVars, rateVars>>
notIdx == <<schedVars, advVars, cycleVars, pipeVars, monVars, persVars, rateVars>>
notRate == <<schedVars, advVars, cycleVars, pipeVars, monVars, persVars, idxVars>>

(***************************************************************************)
(* Scheduler (core/scheduler.py) and Entity (core/entity.py)               *)
(***************************************************************************)

\* scheduler.py:34-41  the task record built by add_task at time t
NewTask(i, enabled, t) ==
  [ name     |-> TaskNames[i],
    interval |-> TaskIntervals[i],
    enabled  |-> enabled,
    last_run |-> None,
    next_run |-> IF enabled THEN t ELSE None ]

\* the run loop is suspended at an await (or does not exist): only then can
\* another coroutine of the event loop run
AtAwait == loopPc \in {"none", "created", "callback", "sleep", "done"}

\* entity.py:114-143 (Entity.initialize) has run: both tasks registered at
\* clock 0, the content task enabled iff settings.auto_start
SchedInit ==
  /\ clock = 0
  /\ \E autoStart \in BOOLEAN :
        tasks = << NewTask(1, autoStart, 0), NewTask(2, TRUE, 0) >>
  /\ running = FALSE
  /\ loopPc = "none"
  /\ now = 0
  /\ idx = 1
  /\ wake = 0
  /\ urgency = NoTrigger
  /\ cbState = [i \in TaskIds |-> "idle"]
  /\ entityRunning = FALSE
  /\ initPending = 0
  /\ initRunning = 0
  /\ starts = 0
  /\ evaluated = {}
  /\ started = {}
  /\ raised = {}

\* time passes while every coroutine is suspended
Tick ==
  /\ AtAwait
  /\ clock < MaxClock
  /\ clock' = clock + 1
  /\ UNCHANGED <<tasks, running, loopPc, now, idx, wake, urgency, cbState,
                 entityRunning, initPending, initRunning, starts,
                 evaluated, started, raised>>
  /\ UNCHANGED notSched

\* entity.py:145-164 Entity.start, with scheduler.py:45-53 Scheduler.start inline
EntityStart ==
  /\ AtAwait
  /\ ~entityRunning
  /\ starts < MaxStarts
  /\ starts' = starts + 1
  /\ entityRunning' = TRUE
  /\ IF running
       THEN UNCHANGED <<running, loopPc>>
       ELSE running' = TRUE /\ loopPc' = "created"
  /\ initPending' = initPending + 1
  /\ UNCHANGED <<clock, tasks, now, idx, wake, urgency, cbState, initRunning,
                 evaluated, started, raised>>
  /\ UNCHANGED notSched

\* Entity.stop with a Scheduler.stop that clears the flag without cancelling
\* the loop task and without waiting for it
EntityStop_NoJoin ==
  /\ AtAwait
  /\ entityRunning \/ running
  /\ entityRunning' = FALSE
  /\ running' = FALSE
  /\ UNCHANGED <<clock, tasks, loopPc, now, idx, wake, urgency, cbState,
                 initPending, initRunning, starts, evaluated, started, raised>>
  /\ UNCHANGED notSched

\* entity.py:166-175 Entity.stop, with scheduler.py:55-64 Scheduler.stop inline.
\* _task.cancel() throws CancelledError into the loop at the await where it is
\* suspended; inside a callback neither entity.py:206 nor scheduler.py:105
\* (`except Exception`) catches it, so it reaches scheduler.py:110 and the loop
\* ends with the callback cut short.
EntityStop ==
  /\ AtAwait
  /\ entityRunning \/ running
  /\ entityRunning' = FALSE
  /\ running' = FALSE
  /\ loopPc' = IF loopPc = "none" THEN "none" ELSE "done"
  /\ cbState' = [i \in TaskIds |-> "idle"]
  /\ now' = 0
  /\ idx' = 1
  /\ wake' = 0
  /\ urgency' = NoTrigger
  /\ evaluated' = {}
  /\ started' = {}
  /\ raised' = {}
  /\ UNCHANGED <<clock, tasks, initPending, initRunning, starts>>
  /\ UNCHANGED notSched

\* entity.py:162, 177-193: the task created by Entity.start begins
\* _content_creation_cycle and suspends in the pipeline
InitCycleBegin ==
  /\ AtAwait
  /\ initPending > 0
  /\ initPending' = initPending - 1
  /\ initRunning' = initRunning + 1
  /\ UNCHANGED <<clock, tasks, running, loopPc, now, idx, wake, urgency, cbState,
                 entityRunning, starts, evaluated, started, raised>>
  /\ UNCHANGED notSched

\* entity.py:195-208: that cycle completes (result or caught exception)
InitCycleEnd ==
  /\ AtAwait
  /\ initRunning > 0
  /\ initRunning' = initRunning - 1
  /\ UNCHANGED <<clock, tasks, running, loopPc, now, idx, wake, urgency, cbState,
                 entityRunning, initPending, starts, evaluated, started, raised>>
  /\ UNCHANGED notSched

\* scheduler.py:116-123
EnableTask(i) ==
  /\ AtAwait
  /\ tasks' = [tasks EXCEPT ![i].enabled = TRUE, ![i].next_run = clock]
  /\ UNCHANGED <<clock, running, loopPc, now, idx, wake, urgency, cbState,
                 entityRunning, initPending, initRunning, starts,
                 evaluated, started, raised>>
  /\ UNCHANGED notSched

\* scheduler.py:125-132
DisableTask(i) ==
  /\ AtAwait
  /\ tasks' = [tasks EXCEPT ![i].enabled = FALSE, ![i].next_run = None]
  /\ UNCHANGED <<clock, running, loopPc, now, idx, wake, urgency, cbState,
                 entityRunning, initPending, initRunning, starts,
                 evaluated, started, raised>>
  /\ UNCHANGED notSched

\* variant: strict comparison with the threshold
IsUrgent_Strict(u) == u > PreemptionThreshold

\* scheduler.py:78  the preemption test on the most urgent trigger
IsUrgent(u) == u >= PreemptionThreshold

\* variant: a check_state that raises makes the main task due
Preempt_RaiseRunsMain(ts, m, t) ==
  IF m # NoTrigger /\ (m = MonitorRaised \/ IsUrgent(m)) /\ ts[ContentIdx].enabled
    THEN [ts EXCEPT ![ContentIdx].next_run = t]
    ELSE ts

\* variant: no preemption before the main task's interval has passed since
\* its last run
Preempt_Cooldown(ts, m, t) ==
  IF /\ m # MonitorRaised /\ m # NoTrigger /\ IsUrgent(m)
     /\ ts[ContentIdx].enabled
     /\ (ts[ContentIdx].last_run = None
           \/ t >= ts[ContentIdx].last_run + ts[ContentIdx].interval)
    THEN [ts EXCEPT ![ContentIdx].next_run = t]
    ELSE ts

\* scheduler.py:73-85  the monitor step of a tick: outcome m of check_state /
\* get_most_urgent_trigger, tick time t
Preempt(ts, m, t) ==
  IF m # MonitorRaised /\ m # NoTrigger /\ IsUrgent(m) /\ ts[ContentIdx].enabled
    THEN [ts EXCEPT ![ContentIdx].next_run = t]
    ELSE ts

\* scheduler.py:68-85  one loop iteration begins: the first one, or after sleep
TickStart ==
  /\ running
  /\ \/ loopPc = "created"
     \/ loopPc = "sleep" /\ clock >= wake
  /\ now' = clock
  /\ \E m \in MonitorOutcomes :
        /\ urgency' = m
        /\ tasks' = Preempt(tasks, m, clock)
  /\ loopPc' = "eval"
  /\ idx' = 1
  /\ evaluated' = {}
  /\ started' = {}
  /\ raised' = {}
  /\ UNCHANGED <<clock, running, wake, cbState, entityRunning, initPending,
                 initRunning, starts>>
  /\ UNCHANGED notSched

\* scheduler.py:95
IsDue(t, nr) == t >= nr

\* variant: the callback is started but not awaited
AwaitCallback_FireAndForget(i) == [pc |-> "eval", idx |-> i + 1]

\* scheduler.py:98-99  `await task["callback"]()`: the loop stays at task i
\* until the callback is over
AwaitCallback(i) == [pc |-> "callback", idx |-> i]

\* scheduler.py:87-101  one iteration of `for task in self.tasks` up to the
\* await of the callback
EvalTask ==
  /\ loopPc = "eval"
  /\ idx <= NTasks
  /\ evaluated' = evaluated \cup {idx}
  /\ IF ~tasks[idx].enabled
       THEN /\ idx' = idx + 1
            /\ UNCHANGED <<tasks, loopPc, cbState, started>>
       ELSE LET nr == IF tasks[idx].next_run = None THEN now
                      ELSE tasks[idx].next_run
            IN /\ tasks' = [tasks EXCEPT ![idx].next_run = nr]
               /\ IF IsDue(now, nr)
                    THEN /\ loopPc' = AwaitCallback(idx).pc
                         /\ idx' = AwaitCallback(idx).idx
                         /\ cbState' = [cbState EXCEPT ![idx] = "running"]
                         /\ started' = started \cup {idx}
                    ELSE /\ idx' = idx + 1
                         /\ UNCHANGED <<loopPc, cbState, started>>
  /\ UNCHANGED <<clock, running, now, wake, urgency, entityRunning, initPending,
                 initRunning, starts, raised>>
  /\ UNCHANGED notSched

\* variant: reschedule from the previous next_run instead of the tick time
AfterRun_FromPrevious(task, t) ==
  [task EXCEPT !.last_run = t, !.next_run = task.next_run + task.interval]

\* scheduler.py:103-104  bookkeeping after the callback returned
AfterRun(task, t) ==
  [task EXCEPT !.last_run = t, !.next_run = t + task.interval]

\* scheduler.py:99-104  the awaited callback returns
CallbackReturn ==
  /\ loopPc = "callback"
  /\ cbState' = [cbState EXCEPT ![idx] = "idle"]
  /\ tasks' = [tasks EXCEPT ![idx] = AfterRun(tasks[idx], now)]
  /\ loopPc' = "eval"
  /\ idx' = idx + 1
  /\ UNCHANGED <<clock, running, now, wake, urgency, entityRunning, initPending,
                 initRunning, starts, evaluated, started, raised>>
  /\ UNCHANGED notSched

\* variant: a raising callback ends the for loop of this tick
AfterRaise_Break(i) == [pc |-> "eval", idx |-> NTasks + 1]

\* scheduler.py:105-106  where the loop continues after a callback raised
AfterRaise(i) == [pc |-> "eval", idx |-> i + 1]

\* scheduler.py:99-106  the awaited callback raises an Exception
CallbackRaise ==
  /\ loopPc = "callback"
  /\ cbState' = [cbState EXCEPT ![idx] = "idle"]
  /\ raised' = raised \cup {idx}
  /\ loopPc' = AfterRaise(idx).pc
  /\ idx' = AfterRaise(idx).idx
  /\ UNCHANGED <<clock, tasks, running, now, wake, urgency, entityRunning,
                 initPending, initRunning, starts, evaluated, started>>
  /\ UNCHANGED notSched

\* scheduler.py:108  the for loop is exhausted: await asyncio.sleep(check_interval).
\* The tick's locals (now, the loop position, the triggers) and the per-tick
\* history go out of scope and are reset.
EvalDone ==
  /\ loopPc = "eval"
  /\ idx > NTasks
  /\ loopPc' = "sleep"
  /\ wake' = clock + CheckInterval
  /\ now' = 0
  /\ idx' = 1
  /\ urgency' = NoTrigger
  /\ evaluated' = {}
  /\ started' = {}
  /\ raised' = {}
  /\ UNCHANGED <<clock, tasks, running, cbState, entityRunning, initPending,
                 initRunning, starts>>
  /\ UNCHANGED notSched

NextSched ==
  \/ Tick
  \/ EntityStart
  \/ EntityStop
  \/ InitCycleBegin
  \/ InitCycleEnd
  \/ \E i \in TaskIds : EnableTask(i)
  \/ \E i \in TaskIds : DisableTask(i)
  \/ TickStart
  \/ EvalTask
  \/ CallbackReturn
  \/ CallbackRaise
  \/ EvalDone


(***************************************************************************)
(* AdvancedScheduler (core/advanced_scheduler.py)                          *)
(***************************************************************************)

\* number of time-of-day slots in a day (24 h scaled)
DayLen == 4
\* number of days explored by the AdvancedScheduler model
AdvDays == 1
\* interval of the interval task, in clock units
AdvInterval == 2
\* AdvancedScheduler.check_interval, in clock units
AdvCheckInterval == 1

Times == 0..(DayLen - 1)
MaxAdvClock == AdvDays * DayLen - 1
AdvIds == 1..2

\* datetime.time() and datetime.date() of a clock value, and datetime.combine
TimeOf(c) == c % DayLen
DateOf(c) == c \div DayLen
Combine(d, t) == d * DayLen + t

SetMin(S) == CHOOSE x \in S : \A y \in S : x <= y

\* advanced_scheduler.py:46-55  the task record built by add_task; interval 0
\* stands for None, schedule_times {} for None
NewAdvTask(interval, times, enabled, skip) ==
  [ interval        |-> interval,
    schedule_times  |-> times,
    enabled         |-> enabled,
    skip_night_mode |-> skip,
    last_run        |-> None,
    next_run        |-> None ]

\* windows given to set_night_mode: two that wrap past midnight (the second
\* is the default 22:00-08:00 scaled) and one that does not
NightWindows == { <<DayLen - 2, 0>>, <<DayLen - 1, 1>>, <<1, 2>> }

\* schedules given to the time-of-day task
ScheduleChoices == { {1}, {2}, {1, 3} }

\* advanced_scheduler.py:16-34 after __init__ and two add_task calls: an
\* interval task and a time-of-day task
AdvInit ==
  /\ aClock = 0
  /\ \E skip1 \in BOOLEAN, skip2 \in BOOLEAN, st \in ScheduleChoices :
        aTasks = << NewAdvTask(AdvInterval, {}, TRUE, skip1),
                    NewAdvTask(0, st, TRUE, skip2) >>
  /\ aRunning = FALSE
  /\ aPc = "none"
  /\ aNow = 0
  /\ aIdx = 1
  /\ aWake = 0
  /\ nightEnabled = FALSE
  /\ nightStart = DayLen - 1
  /\ nightEnd = 1
  /\ aLastEval = [i \in AdvIds |-> None]
  /\ aRan = [i \in AdvIds |-> FALSE]
  /\ aLoops = 0

\* the component at rest, for the specifications of the other components
AdvIdle ==
  /\ aClock = 0
  /\ aTasks = << >>
  /\ aRunning = FALSE
  /\ aPc = "none"
  /\ aNow = 0
  /\ aIdx = 1
  /\ aWake = 0
  /\ nightEnabled = FALSE
  /\ nightStart = 0
  /\ nightEnd = 0
  /\ aLastEval = << >>
  /\ aRan = << >>
  /\ aLoops = 0

AdvAtAwait == aPc \in {"none", "created", "callback", "sleep", "done"}

AdvTick ==
  /\ AdvAtAwait
  /\ aClock < MaxAdvClock
  /\ aClock' = aClock + 1
  /\ UNCHANGED <<aTasks, aRunning, aPc, aNow, aIdx, aWake, nightEnabled,
                 nightStart, nightEnd, aLastEval, aRan>>
  /\ UNCHANGED aLoops
  /\ UNCHANGED notAdv

\* advanced_scheduler.py:59-66
SetNightMode(enabled, start, end) ==
  /\ AdvAtAwait
  /\ nightEnabled' = enabled
  /\ nightStart' = start
  /\ nightEnd' = end
  /\ UNCHANGED <<aClock, aTasks, aRunning, aPc, aNow, aIdx, aWake, aLastEval,
                 aRan>>
  /\ UNCHANGED aLoops
  /\ UNCHANGED notAdv

\* variant: the end of the window is excluded
IsNightMode_EndExcluded(t) ==
  /\ nightEnabled
  /\ IF nightStart > nightEnd
       THEN t >= nightStart \/ t < nightEnd
       ELSE nightStart <= t /\ t <= nightEnd

\* advanced_scheduler.py:73-86  is_night_mode at time of day t
IsNightMode(t) ==
  /\ nightEnabled
  /\ IF nightStart > nightEnd
       THEN t >= nightStart \/ t <= nightEnd
       ELSE nightStart <= t /\ t <= nightEnd

\* advanced_scheduler.py:88-109  get_next_schedule_time, called at clock c
NextScheduleTime(times, c) ==
  IF times = {} THEN None
  ELSE LET today == { Combine(DateOf(c), t) : t \in times }
           later == { d \in today : d > c }
       IN IF later # {} THEN SetMin(later)
          ELSE Combine(DateOf(c) + 1, SetMin(times))

\* advanced_scheduler.py:120-127  the schedule_times branch of should_run_task:
\* `now` is read at line 120, get_next_schedule_time reads the clock again at
\* line 93, not earlier than `now`
ScheduleDue(times, c) ==
  LET next_time == NextScheduleTime(times, c)
  IN next_time # None /\ c >= next_time

\* advanced_scheduler.py:111-135  should_run_task's answer at clock c for a
\* task whose next_run has been initialised
ShouldRun(task, c) ==
  IF ~task.enabled THEN FALSE
  ELSE IF IsNightMode(TimeOf(c)) /\ ~task.skip_night_mode THEN FALSE
  ELSE IF task.schedule_times # {} THEN ScheduleDue(task.schedule_times, c)
  ELSE IF task.interval # 0
         THEN (IF task.next_run = None THEN c ELSE task.next_run) <= c
  ELSE FALSE

\* advanced_scheduler.py:129-132  should_run_task's side effect on next_run
TouchNextRun(task, c) ==
  IF /\ task.enabled
     /\ ~(IsNightMode(TimeOf(c)) /\ ~task.skip_night_mode)
     /\ task.schedule_times = {}
     /\ task.interval # 0
     /\ task.next_run = None
    THEN [task EXCEPT !.next_run = c]
    ELSE task

\* variant: start() creates a loop task whether or not one is running
AdvStart_NoCheck ==
  /\ AdvAtAwait
  /\ aRunning' = TRUE
  /\ aPc' = "created"
  /\ aLoops' = aLoops + 1
  /\ UNCHANGED <<aClock, aTasks, aNow, aIdx, aWake, nightEnabled, nightStart,
                 nightEnd, aLastEval, aRan>>
  /\ UNCHANGED notAdv

\* advanced_scheduler.py:137-145  start(): nothing happens if running,
\* otherwise the loop task is created
AdvStart ==
  /\ AdvAtAwait
  /\ IF aRunning
       THEN UNCHANGED <<aRunning, aPc, aLoops>>
       ELSE /\ aRunning' = TRUE
            /\ aPc' = "created"
            /\ aLoops' = aLoops + 1
  /\ UNCHANGED <<aClock, aTasks, aNow, aIdx, aWake, nightEnabled, nightStart,
                 nightEnd, aLastEval, aRan>>
  /\ UNCHANGED notAdv

\* advanced_scheduler.py:147-156  stop cancels the loop task self._task at
\* its await and waits until it has finished
AdvStop ==
  /\ AdvAtAwait
  /\ aRunning
  /\ aRunning' = FALSE
  /\ aPc' = "done"
  /\ aNow' = 0
  /\ aIdx' = 1
  /\ aWake' = 0
  /\ UNCHANGED <<aClock, aTasks, nightEnabled, nightStart, nightEnd, aLastEval,
                 aRan>>
  /\ aLoops' = IF aLoops > 0 THEN aLoops - 1 ELSE 0
  /\ UNCHANGED notAdv

\* advanced_scheduler.py:160-162  one loop iteration begins
AdvTickStart ==
  /\ aRunning
  /\ \/ aPc = "created"
     \/ aPc = "sleep" /\ aClock >= aWake
  /\ aNow' = aClock
  /\ aPc' = "eval"
  /\ aIdx' = 1
  /\ UNCHANGED <<aClock, aTasks, aRunning, aWake, nightEnabled, nightStart,
                 nightEnd, aLastEval, aRan>>
  /\ UNCHANGED aLoops
  /\ UNCHANGED notAdv

\* advanced_scheduler.py:164-169  one iteration of the for loop up to the
\* await of the callback
AdvEvalTask ==
  /\ aPc = "eval"
  /\ aIdx <= Len(aTasks)
  /\ LET task == aTasks[aIdx]
         suppressed == IsNightMode(TimeOf(aClock)) /\ ~task.skip_night_mode
     IN /\ aTasks' = [aTasks EXCEPT ![aIdx] = TouchNextRun(task, aClock)]
        /\ aLastEval' = IF task.enabled /\ ~suppressed /\ task.schedule_times # {}
                          THEN [aLastEval EXCEPT ![aIdx] = aClock]
                          ELSE aLastEval
        /\ IF ShouldRun(task, aClock)
             THEN /\ aPc' = "callback"
                  /\ aRan' = [aRan EXCEPT ![aIdx] = TRUE]
                  /\ UNCHANGED aIdx
             ELSE /\ aIdx' = aIdx + 1
                  /\ UNCHANGED <<aPc, aRan>>
  /\ UNCHANGED <<aClock, aRunning, aNow, aWake, nightEnabled, nightStart,
                 nightEnd>>
  /\ UNCHANGED aLoops
  /\ UNCHANGED notAdv

\* advanced_scheduler.py:173-179  bookkeeping after the callback returned, at
\* clock c, in the tick that began at t
AdvAfterRun(task, t, c) ==
  IF task.schedule_times # {}
    THEN [task EXCEPT !.last_run = t,
                      !.next_run = NextScheduleTime(task.schedule_times, c)]
    ELSE IF task.interval # 0
      THEN [task EXCEPT !.last_run = t, !.next_run = t + task.interval]
      ELSE [task EXCEPT !.last_run = t]

\* advanced_scheduler.py:169-179  the awaited callback returns
AdvCallbackReturn ==
  /\ aPc = "callback"
  /\ aTasks' = [aTasks EXCEPT ![aIdx] = AdvAfterRun(aTasks[aIdx], aNow, aClock)]
  /\ aPc' = "eval"
  /\ aIdx' = aIdx + 1
  /\ UNCHANGED <<aClock, aRunning, aNow, aWake, nightEnabled, nightStart,
                 nightEnd, aLastEval, aRan>>
  /\ UNCHANGED aLoops
  /\ UNCHANGED notAdv

\* advanced_scheduler.py:180-181  the awaited callback raises an Exception
AdvCallbackRaise ==
  /\ aPc = "callback"
  /\ aPc' = "eval"
  /\ aIdx' = aIdx + 1
  /\ UNCHANGED <<aClock, aTasks, aRunning, aNow, aWake, nightEnabled,
                 nightStart, nightEnd, aLastEval, aRan>>
  /\ UNCHANGED aLoops
  /\ UNCHANGED notAdv

\* advanced_scheduler.py:183  await asyncio.sleep(check_interval)
AdvEvalDone ==
  /\ aPc = "eval"
  /\ aIdx > Len(aTasks)
  /\ aPc' = "sleep"
  /\ aWake' = aClock + AdvCheckInterval
  /\ aNow' = 0
  /\ aIdx' = 1
  /\ UNCHANGED <<aClock, aTasks, aRunning, nightEnabled, nightStart, nightEnd,
                 aLastEval, aRan>>
  /\ UNCHANGED aLoops
  /\ UNCHANGED notAdv

NextAdv ==
  \/ AdvTick
  \/ \E e \in BOOLEAN, w \in NightWindows : SetNightMode(e, w[1], w[2])
  \/ AdvStart
  \/ AdvStop
  \/ AdvTickStart
  \/ AdvEvalTask
  \/ AdvCallbackReturn
  \/ AdvCallbackRaise
  \/ AdvEvalDone

(***************************************************************************)
(* IntentLoop.run_cycle (core/intent_loop.py)                              *)
(***************************************************************************)

\* number of run_cycle calls explored
MaxCycles == 2

Phases == <<"observe", "think", "form_intent", "act", "reflect">>
PhaseSet == {Phases[k] : k \in 1..Len(Phases)}

\* what form_intent may hand back: an object with the attributes action_type
\* and confidence that line 133 reads, or a core.intent_loop.Intent
\* (intent_loop.py:39-48: fields type, payload, timestamp), which has neither
IntentKinds == {"with_action_type", "dataclass_intent"}

\* confidences a unit may report, in hundredths
Confidences == {0, 50, 100}

NoReflection == [success |-> FALSE, should_retry |-> FALSE, present |-> FALSE]

\* intent_loop.py:109-112 after __init__
CycleInit ==
  /\ cyPc = "idle"
  /\ cyPhases = << >>
  /\ currentCycle = "None"
  /\ cySkip = FALSE
  /\ cyIntent = "none"
  /\ cyConfidence = None
  /\ cyExecuted = FALSE
  /\ cyFailed = FALSE
  /\ cyReflection = NoReflection
  /\ cyCount = 0

CycleIdle == CycleInit

\* intent_loop.py:114-122  run_cycle is called and awaits observe
RunCycle ==
  /\ cyPc \in {"idle", "returned", "raised"}
  /\ cyCount < MaxCycles
  /\ cyCount' = cyCount + 1
  /\ cyPc' = "observe"
  /\ cyPhases' = <<"observe">>
  /\ cySkip' = FALSE
  /\ cyIntent' = "none"
  /\ cyConfidence' = None
  /\ cyExecuted' = FALSE
  /\ cyFailed' = FALSE
  /\ cyReflection' = NoReflection
  /\ UNCHANGED currentCycle
  /\ UNCHANGED notCycle

\* intent_loop.py:154-173  the handler of `except Exception`: a failed
\* Reflection with should_retry=False if _current_cycle holds an action,
\* otherwise the exception is re-raised
OnException(cur) ==
  IF cur # "None" /\ cur = "has_action"
    THEN [pc |-> "returned",
          reflection |-> [success |-> FALSE, should_retry |-> FALSE, present |-> TRUE]]
    ELSE [pc |-> "raised", reflection |-> NoReflection]

\* a phase (or the statement that follows it inside the try) raises
Fail ==
  /\ cyFailed' = TRUE
  /\ cyPc' = OnException(currentCycle).pc
  /\ cyReflection' = OnException(currentCycle).reflection

\* intent_loop.py:122-127  observe returns; think is awaited
ObserveReturn ==
  /\ cyPc = "observe"
  /\ cyPc' = "think"
  /\ cyPhases' = Append(cyPhases, "think")
  /\ UNCHANGED <<currentCycle, cySkip, cyIntent, cyConfidence, cyExecuted,
                 cyFailed, cyReflection, cyCount>>
  /\ UNCHANGED notCycle

\* intent_loop.py:127-132  think returns a Thought whose considerations carry
\* skip = sk; form_intent is awaited
ThinkReturn(sk) ==
  /\ cyPc = "think"
  /\ cySkip' = sk
  /\ cyPc' = "form_intent"
  /\ cyPhases' = Append(cyPhases, "form_intent")
  /\ UNCHANGED <<currentCycle, cyIntent, cyConfidence, cyExecuted, cyFailed,
                 cyReflection, cyCount>>
  /\ UNCHANGED notCycle

\* intent_loop.py:132-137  form_intent returns an intent of kind k with
\* confidence c; line 133 reads intent.action_type and intent.confidence, an
\* AttributeError on a core.intent_loop.Intent; otherwise act is awaited
FormIntentReturn(k, c) ==
  /\ cyPc = "form_intent"
  /\ cyIntent' = k
  /\ cyConfidence' = IF k = "with_action_type" THEN c ELSE None
  /\ IF k = "with_action_type"
       THEN /\ cyPc' = "act"
            /\ cyPhases' = Append(cyPhases, "act")
            /\ UNCHANGED <<cyFailed, cyReflection>>
       ELSE /\ Fail
            /\ UNCHANGED cyPhases
  /\ UNCHANGED <<currentCycle, cySkip, cyExecuted, cyCount>>
  /\ UNCHANGED notCycle

\* intent_loop.py:137-149  act returns an Action with executed = e; the Result
\* is built and reflect is awaited
ActReturn(e) ==
  /\ cyPc = "act"
  /\ cyExecuted' = e
  /\ cyPc' = "reflect"
  /\ cyPhases' = Append(cyPhases, "reflect")
  /\ UNCHANGED <<currentCycle, cySkip, cyIntent, cyConfidence, cyFailed,
                 cyReflection, cyCount>>
  /\ UNCHANGED notCycle

\* reflect returns and, when it asks for a retry, run_cycle awaits act again
ReflectReturn_Retry(r) ==
  /\ cyPc = "reflect"
  /\ cyPc' = IF r THEN "act" ELSE "returned"
  /\ cyPhases' = IF r THEN Append(cyPhases, "act") ELSE cyPhases
  /\ cyReflection' = [success |-> cyExecuted, should_retry |-> r, present |-> TRUE]
  /\ UNCHANGED <<currentCycle, cySkip, cyIntent, cyConfidence,
                 cyExecuted, cyFailed, cyCount>>
  /\ UNCHANGED notCycle

\* intent_loop.py:149-152  reflect returns a Reflection on the Result
\* (success = action.executed) with should_retry = r; run_cycle returns it
ReflectReturn(r) ==
  /\ cyPc = "reflect"
  /\ cyPc' = "returned"
  /\ cyReflection' = [success |-> cyExecuted, should_retry |-> r, present |-> TRUE]
  /\ UNCHANGED <<cyPhases, currentCycle, cySkip, cyIntent, cyConfidence,
                 cyExecuted, cyFailed, cyCount>>
  /\ UNCHANGED notCycle

\* intent_loop.py:119-173  the awaited phase raises an Exception
PhaseRaise ==
  /\ cyPc \in PhaseSet
  /\ Fail
  /\ UNCHANGED <<cyPhases, currentCycle, cySkip, cyIntent, cyConfidence,
                 cyExecuted, cyCount>>
  /\ UNCHANGED notCycle

NextCycle ==
  \/ RunCycle
  \/ ObserveReturn
  \/ \E sk \in BOOLEAN : ThinkReturn(sk)
  \/ \E k \in IntentKinds, c \in Confidences : FormIntentReturn(k, c)
  \/ \E e \in BOOLEAN : ActReturn(e)
  \/ \E r \in BOOLEAN : ReflectReturn(r)
  \/ PhaseRaise

(***************************************************************************)
(* Orchestrator.execute (core/orchestrator.py)                             *)
(***************************************************************************)

\* orchestrator.py:17-24
Pipeline == <<"thinker", "writer", "editor", "critic", "publisher", "archivist">>
PipeLen == Len(Pipeline)

\* blackboard keys and the values units write; 0 stands for an absent key
Keys == {"k1", "k2"}
\* largest value written to a key
MaxVal == 2
Maps == [Keys -> 0..MaxVal]
EmptyMap == [k \in Keys |-> 0]

\* variant: the value a key already has is kept
Update_FirstWins(m, u) == [k \in Keys |-> IF m[k] # 0 THEN m[k] ELSE u[k]]

\* dict.update: the keys present in u replace those of m
Update(m, u) == [k \in Keys |-> IF u[k] # 0 THEN u[k] ELSE m[k]]

\* main.py:36-43  the units initialize_entity registers, by their names
\* (agents/*.py, the name each passes to BaseAgent.__init__)
MainRegistration ==
  <<"thinker", "writer", "sense_editor", "editor", "critic", "meta_critic",
    "publisher", "archivist">>

\* registrations explored, as the order in which the units were put into the
\* agents dict: the pipeline's names in its order, main.py's units, one name
\* missing, and three names put in another order than the pipeline lists them
RegistrationOrders ==
  { Pipeline,
    MainRegistration,
    <<"thinker", "writer", "critic", "publisher", "archivist">>,
    <<"publisher", "thinker", "writer">> }

\* dict keys: the names with an implementation
NamesOf(order) == {order[k] : k \in 1..Len(order)}

\* orchestrator.py:15-24 after __init__(agents)
PipeInit ==
  /\ pPc = "idle"
  /\ pIdx = 1
  /\ pRegistered \in RegistrationOrders
  /\ pAgents = NamesOf(pRegistered)
  /\ pCtx = EmptyMap
  /\ pShared = EmptyMap
  /\ pInvoked = << >>
  /\ pFailedAt = 0
  /\ pAtInvoke = EmptyMap
  /\ pLastWrite = EmptyMap

\* the component at rest, for the specifications of the other components
PipeIdle ==
  /\ pPc = "idle"
  /\ pIdx = 1
  /\ pAgents = {}
  /\ pRegistered = << >>
  /\ pCtx = EmptyMap
  /\ pShared = EmptyMap
  /\ pInvoked = << >>
  /\ pFailedAt = 0
  /\ pAtInvoke = EmptyMap
  /\ pLastWrite = EmptyMap

\* variant: shared_data = context, the caller's dict itself
SharedIsContext_NoCopy == TRUE

\* orchestrator.py:28  shared_data = context.copy() is a new dict object, not
\* the caller's: whether shared_data is the dict the caller passed in
SharedIsContext == FALSE

\* orchestrator.py:26-28  execute(context): shared_data = context.copy()
Execute(ctx) ==
  /\ pPc \in {"idle", "returned"}
  /\ pCtx' = ctx
  /\ pShared' = ctx
  /\ pPc' = "loop"
  /\ pIdx' = 1
  /\ pInvoked' = << >>
  /\ pFailedAt' = 0
  /\ pAtInvoke' = EmptyMap
  /\ pLastWrite' = EmptyMap
  /\ UNCHANGED <<pAgents, pRegistered>>
  /\ UNCHANGED notPipe

\* variant: a name without implementation ends the run
SkipMissing_Stops ==
  /\ pPc = "loop"
  /\ pIdx <= PipeLen
  /\ Pipeline[pIdx] \notin pAgents
  /\ pIdx' = PipeLen + 1
  /\ UNCHANGED <<pPc, pAgents, pRegistered, pCtx, pShared, pInvoked, pFailedAt, pAtInvoke,
                 pLastWrite>>
  /\ UNCHANGED notPipe

\* orchestrator.py:30-34  the name has no implementation: log and continue
SkipMissing ==
  /\ pPc = "loop"
  /\ pIdx <= PipeLen
  /\ Pipeline[pIdx] \notin pAgents
  /\ pIdx' = pIdx + 1
  /\ UNCHANGED <<pPc, pAgents, pRegistered, pCtx, pShared, pInvoked, pFailedAt, pAtInvoke,
                 pLastWrite>>
  /\ UNCHANGED notPipe

\* orchestrator.py:30-39  the unit is found and agent.act(shared_data) awaited
Invoke ==
  /\ pPc = "loop"
  /\ pIdx <= PipeLen
  /\ Pipeline[pIdx] \in pAgents
  /\ pPc' = "await"
  /\ pInvoked' = Append(pInvoked, pIdx)
  /\ pAtInvoke' = pShared
  /\ UNCHANGED <<pIdx, pAgents, pRegistered, pCtx, pShared, pFailedAt, pLastWrite>>
  /\ UNCHANGED notPipe

\* orchestrator.py:39-41  the unit returns the dict u: shared_data.update(u)
UnitReturnDict(u) ==
  /\ pPc = "await"
  /\ pShared' = Update(pShared, u)
  /\ pCtx' = IF SharedIsContext THEN pShared' ELSE pCtx
  /\ pLastWrite' = [k \in Keys |-> IF u[k] = 0 THEN pLastWrite[k] ELSE u[k]]
  /\ pPc' = "loop"
  /\ pIdx' = pIdx + 1
  /\ UNCHANGED <<pAgents, pRegistered, pInvoked, pFailedAt, pAtInvoke>>
  /\ UNCHANGED notPipe

\* orchestrator.py:39-40  the unit returns something that is not a dict
UnitReturnOther ==
  /\ pPc = "await"
  /\ pPc' = "loop"
  /\ pIdx' = pIdx + 1
  /\ UNCHANGED <<pAgents, pRegistered, pCtx, pShared, pInvoked, pFailedAt, pAtInvoke,
                 pLastWrite>>
  /\ UNCHANGED notPipe

\* variant: a failing unit is skipped and the loop continues
AfterUnitRaise_Continue(i) == i + 1

\* orchestrator.py:42-44  `break`: the position at which the for loop resumes
\* after the unit at position i raised (past the end: the loop is left)
AfterUnitRaise(i) == PipeLen + 1

\* orchestrator.py:39-44  the unit raises an Exception
UnitRaise ==
  /\ pPc = "await"
  /\ pFailedAt' = pIdx
  /\ pPc' = "loop"
  /\ pIdx' = AfterUnitRaise(pIdx)
  /\ UNCHANGED <<pAgents, pRegistered, pCtx, pShared, pInvoked, pAtInvoke,
                 pLastWrite>>
  /\ UNCHANGED notPipe

\* orchestrator.py:46-47  the loop is over: return shared_data
PipeReturn ==
  /\ pPc = "loop"
  /\ pIdx > PipeLen
  /\ pPc' = "returned"
  /\ UNCHANGED <<pIdx, pAgents, pRegistered, pCtx, pShared, pInvoked, pFailedAt, pAtInvoke,
                 pLastWrite>>
  /\ UNCHANGED notPipe

NextPipe ==
  \/ \E ctx \in Maps : Execute(ctx)
  \/ SkipMissing
  \/ Invoke
  \/ \E u \in Maps : UnitReturnDict(u)
  \/ UnitReturnOther
  \/ UnitRaise
  \/ PipeReturn

(***************************************************************************)
(* InternalStateMonitor (core/internal_monitor.py)                         *)
(* Monitor time is counted in units of six hours; a content record's or a  *)
(* goal's timestamp is the clock value it was stamped with, BadStamp for a *)
(* string datetime.fromisoformat cannot use, NoStamp for an empty one.     *)
(***************************************************************************)

\* last clock value explored by the monitor model
MaxMonClock == 1
\* longest run of equal records in an enumerated history
MaxRun == 11
\* length of the older run of records in an enumerated history
MaxOlderRun == 2
\* number of add_content calls explored
MaxAdds == 1

\* hours per clock unit of the monitor model
HoursPerUnit == 6
\* a timestamp that raises inside the rule that parses it; as a string it
\* sorts after every ISO timestamp
BadStamp == 99
\* ContentGoal.created_at == "" (goals.py:20)
NoStamp == -99

\* internal_monitor.py:60, 181, 223  get_recent_content(limit=10)
RecentLimit == 10
\* internal_monitor.py:111  get_recent_content(limit=20)
TopicLimit == 20
\* internal_monitor.py:182, 226  fewer than 5 records: no trigger
MinRecords == 5
\* internal_monitor.py:120  a topic counted 3 times or more is repeated
RepeatThreshold == 3

Min2(a, b) == IF a <= b THEN a ELSE b

Trigger(name, u) == [name |-> name, urgency |-> u]

\* models.py:43-55  ContentMemory, the fields the monitor reads
ContentRecord(pub, rej, topic, score, ts) ==
  [published |-> pub, rejected |-> rej, topic |-> topic,
   quality_score |-> score, timestamp |-> ts]

\* the content records histories are built from
ContentKinds ==
  { ContentRecord(FALSE, TRUE, "a", None, -1),
    ContentRecord(TRUE, TRUE, "", None, -1),
    ContentRecord(TRUE, FALSE, "b", 80, -5),
    ContentRecord(FALSE, FALSE, "a", 40, -5),
    ContentRecord(TRUE, FALSE, "", None, BadStamp) }

\* the records add_content is called with (stamped with the current clock)
AddedKinds ==
  { [published |-> TRUE, rejected |-> FALSE, topic |-> "a", quality_score |-> 40],
    [published |-> FALSE, rejected |-> TRUE, topic |-> "", quality_score |-> None] }

\* goals.py:12-21  ContentGoal, the fields the monitor reads
Goal(active, priority, created) ==
  [active |-> active, priority |-> priority, created_at |-> created]

\* goals.py:24-41  SystemGoals, the fields the monitor reads
SystemGoals(frequency, goals) ==
  [posting_frequency |-> frequency, content_goals |-> goals]

\* the goal configurations explored: each posting frequency, and goal lists
\* that are empty, stagnating (one goal, two goals), unparsable after or
\* before a stagnating goal, or skipped (inactive, low priority, created_at
\* unset)
GoalConfigs ==
  { SystemGoals("moderate", << >>),
    SystemGoals("frequent", << >>),
    SystemGoals("frequent", << Goal(TRUE, 8, -30) >>),
    SystemGoals("rare", << Goal(TRUE, 8, -30), Goal(TRUE, 9, -30) >>),
    SystemGoals("frequent", << Goal(TRUE, 8, -30), Goal(TRUE, 8, BadStamp) >>),
    SystemGoals("rare", << Goal(TRUE, 8, BadStamp), Goal(TRUE, 7, -30) >>),
    SystemGoals("moderate", << Goal(FALSE, 9, -30), Goal(TRUE, 5, -30),
                               Goal(TRUE, 7, NoStamp) >>) }

Run(r, n) == [i \in 1..n |-> r]

\* storage.py:232-236  ORDER BY timestamp DESC
IsNewestFirst(s) ==
  \A i \in 1..(Len(s) - 1) : s[i].timestamp >= s[i + 1].timestamp

\* the state after InternalStateMonitor.__init__ over an existing history
MonInit ==
  /\ \E k1 \in ContentKinds, k2 \in ContentKinds,
        n1 \in 0..MaxRun, n2 \in 0..MaxOlderRun :
       /\ n1 = 0 => n2 = 0
       /\ n2 > 0 => k1 # k2
       /\ mStore = Run(k1, n1) \o Run(k2, n2)
  /\ IsNewestFirst(mStore)
  /\ mGoals \in GoalConfigs
  /\ mClock = 0
  /\ triggers = << >>
  /\ mPrevTriggers = << >>
  /\ mFailed = {}
  /\ mFresh = FALSE
  /\ mAdds = 0

\* the monitor component at rest
MonIdle ==
  /\ mStore = << >>
  /\ mGoals = SystemGoals("moderate", << >>)
  /\ mClock = 0
  /\ triggers = << >>
  /\ mPrevTriggers = << >>
  /\ mFailed = {}
  /\ mFresh = FALSE
  /\ mAdds = 0

\* storage.py:225-258  get_recent_content(limit)
GetRecentContent(store, limit) == SubSeq(store, 1, Min2(limit, Len(store)))

IsPublished(c) == c.published
IsRejected(c) == c.rejected
HasScore(c) == c.quality_score # None

\* internal_monitor.py:74  max(published_content, key=lambda x: x.timestamp):
\* the first record carrying the greatest timestamp
LastPublished(pub) ==
  LET top == CHOOSE t \in {pub[i].timestamp : i \in 1..Len(pub)} :
               \A i \in 1..Len(pub) : pub[i].timestamp <= t
      first == CHOOSE i \in 1..Len(pub) :
                 /\ pub[i].timestamp = top
                 /\ \A j \in 1..(i - 1) : pub[j].timestamp # top
  IN pub[first]

\* internal_monitor.py:81-85  expected interval, in clock units
ExpectedInterval(frequency) ==
  CASE frequency = "frequent" -> 6 \div HoursPerUnit
    [] frequency = "moderate" -> 24 \div HoursPerUnit
    [] frequency = "rare" -> 72 \div HoursPerUnit
    [] OTHER -> 24 \div HoursPerUnit

\* internal_monitor.py:88 without the min(0.9, ...)
SilenceUrgency_Unclamped(h, e) == 50 + (20 * h - 30 * e) \div e

\* internal_monitor.py:88  min(0.9, 0.5 + (hours_since / expected - 1.5) * 0.2),
\* in hundredths, rounded down
SilenceUrgency(h, e) == Min2(90, 50 + (20 * h - 30 * e) \div e)

\* internal_monitor.py:124  min(0.8, 0.4 + (max_repeats - 3) * 0.2)
RepetitionUrgency(maxRepeats) ==
  Min2(80, 40 + (maxRepeats - RepeatThreshold) * 20)

\* internal_monitor.py:54-103: does the rule raise inside its try block
SilenceFails(store) ==
  LET pub == SelectSeq(GetRecentContent(store, RecentLimit), IsPublished)
  IN pub # << >> /\ LastPublished(pub).timestamp = BadStamp

\* internal_monitor.py:54-103  _check_publication_silence
CheckPublicationSilence(store, goals, c) ==
  LET pub == SelectSeq(GetRecentContent(store, RecentLimit), IsPublished)
  IN IF pub = << >> THEN << Trigger("no_publications", 50) >>
     ELSE IF SilenceFails(store) THEN << >>
     ELSE LET h == c - LastPublished(pub).timestamp
              e == ExpectedInterval(goals.posting_frequency)
          IN IF 2 * h > 3 * e
             THEN << Trigger("publication_silence", SilenceUrgency(h, e)) >>
             ELSE << >>

\* internal_monitor.py:112-117  topic_counts over the records with a topic
TopicCount(recent, t) ==
  Cardinality({i \in 1..Len(recent) : recent[i].topic = t})


\* internal_monitor.py:105-139 counting the topics of the whole history
\* instead of the 20 most recent records
CheckRepetition_WholeHistory(store) ==
  LET topics == {store[i].topic : i \in 1..Len(store)} \ {""}
      repeated == {t \in topics : TopicCount(store, t) >= RepeatThreshold}
  IN IF repeated = {} THEN << >>
     ELSE LET maxRepeats ==
                CHOOSE n \in {TopicCount(store, t) : t \in repeated} :
                  \A t \in repeated : TopicCount(store, t) <= n
          IN << Trigger("topic_repetition", RepetitionUrgency(maxRepeats)) >>

\* internal_monitor.py:105-139  _check_repetition
CheckRepetition(store) ==
  LET recent == GetRecentContent(store, TopicLimit)
      topics == {recent[i].topic : i \in 1..Len(recent)} \ {""}
      repeated == {t \in topics : TopicCount(recent, t) >= RepeatThreshold}
  IN IF repeated = {} THEN << >>
     ELSE LET maxRepeats ==
                CHOOSE n \in {TopicCount(recent, t) : t \in repeated} :
                  \A t \in repeated : TopicCount(recent, t) <= n
          IN << Trigger("topic_repetition", RepetitionUrgency(maxRepeats)) >>

\* internal_monitor.py:155-158: does this goal count as stagnating
\* (created_at empty: created now; 7 days are 28 clock units)
GoalStagnates(goal, c) ==
  LET created == IF goal.created_at = NoStamp THEN c ELSE goal.created_at
  IN (c - created) * HoursPerUnit > 7 * 24 /\ goal.priority >= 7

\* internal_monitor.py:149-171: the loop over content_goals; the first active
\* goal whose created_at cannot be parsed raises, and the except clause
\* leaves the loop with the triggers appended so far
RECURSIVE GoalLoop(_, _, _, _)
GoalLoop(gl, i, c, acc) ==
  IF i > Len(gl) THEN [triggers |-> acc, failed |-> FALSE]
  ELSE IF ~gl[i].active THEN GoalLoop(gl, i + 1, c, acc)
  ELSE IF gl[i].created_at = BadStamp THEN [triggers |-> acc, failed |-> TRUE]
  ELSE IF GoalStagnates(gl[i], c)
       THEN GoalLoop(gl, i + 1, c, Append(acc, Trigger("goal_stagnation", 60)))
       ELSE GoalLoop(gl, i + 1, c, acc)

\* internal_monitor.py:141-173  _check_goal_progress
CheckGoalProgress(goals, c) ==
  IF goals.content_goals = << >> THEN << >>
  ELSE GoalLoop(goals.content_goals, 1, c, << >>).triggers

GoalFails(goals, c) ==
  goals.content_goals # << >> /\ GoalLoop(goals.content_goals, 1, c, << >>).failed


\* internal_monitor.py:175-215 without the return for fewer than 5 records
CheckTooSafe_NoMinimum(store) ==
  LET recent == GetRecentContent(store, RecentLimit)
      rejected == Len(SelectSeq(recent, IsRejected))
  IN IF recent = << >> THEN << >>
     ELSE IF 10 * rejected > 8 * Len(recent)
          THEN << Trigger("too_conservative", 70) >>
          ELSE << >>

\* internal_monitor.py:175-215 with a rejection rate that must exceed 1.0
CheckTooSafe_RateAboveOne(store) ==
  LET recent == GetRecentContent(store, RecentLimit)
      rejected == Len(SelectSeq(recent, IsRejected))
  IN IF Len(recent) < MinRecords THEN << >>
     ELSE IF 10 * rejected > 10 * Len(recent)
          THEN << Trigger("too_conservative", 70) >>
          ELSE << >>

\* internal_monitor.py:175-215  _check_too_safe
\* (rejection_rate > 0.8 written without division)
CheckTooSafe(store) ==
  LET recent == GetRecentContent(store, RecentLimit)
      rejected == Len(SelectSeq(recent, IsRejected))
  IN IF Len(recent) < MinRecords THEN << >>
     ELSE IF 10 * rejected > 8 * Len(recent)
          THEN << Trigger("too_conservative", 70) >>
          ELSE << >>


\* internal_monitor.py:217-249 with the older average taken over the five
\* scores after the first three (scores[3:8]) instead of scores[3:5]
CheckQualityTrend_OlderFive(store) ==
  LET scored == SelectSeq(GetRecentContent(store, RecentLimit), HasScore)
      k == Min2(5, Len(scored) - 3)
      sum[i \in 3..(3 + k)] ==
        IF i = 3 THEN 0 ELSE sum[i - 1] + scored[i].quality_score
  IN IF Len(scored) < MinRecords THEN << >>
     ELSE LET r == scored[1].quality_score + scored[2].quality_score
                     + scored[3].quality_score
          IN IF k * r < 3 * sum[3 + k] - 30 * k
             THEN << Trigger("quality_degradation", 60) >>
             ELSE << >>

\* internal_monitor.py:217-249  _check_quality_trend
\* (recent_avg < older_avg - 0.1 over scores[:3] and scores[3:5], in
\* hundredths and multiplied by 6)
CheckQualityTrend(store) ==
  LET scored == SelectSeq(GetRecentContent(store, RecentLimit), HasScore)
  IN IF Len(scored) < MinRecords THEN << >>
     ELSE LET s == [i \in 1..5 |-> scored[i].quality_score]
          IN IF 2 * (s[1] + s[2] + s[3]) < 3 * (s[4] + s[5]) - 60
             THEN << Trigger("quality_degradation", 60) >>
             ELSE << >>

\* internal_monitor.py:34-49  the list check_state builds
CheckStateResult(store, goals, c) ==
  CheckPublicationSilence(store, goals, c) \o CheckRepetition(store)
    \o CheckGoalProgress(goals, c) \o CheckTooSafe(store)
    \o CheckQualityTrend(store)

\* the rules whose except clause ran
FailedRules(store, goals, c) ==
  (IF SilenceFails(store) THEN {"publication_silence"} ELSE {})
    \cup (IF GoalFails(goals, c) THEN {"goal_progress"} ELSE {})

\* internal_monitor.py:51 as an accumulation over calls
AssignTriggers_Extend(old, new) == old \o new

\* internal_monitor.py:51  self.triggers = triggers
AssignTriggers(old, new) == new

\* internal_monitor.py:32-52  check_state
CheckState ==
  /\ triggers' = AssignTriggers(triggers, CheckStateResult(mStore, mGoals, mClock))
  /\ mPrevTriggers' = triggers
  /\ mFailed' = FailedRules(mStore, mGoals, mClock)
  /\ mFresh' = TRUE
  /\ UNCHANGED <<mStore, mGoals, mClock, mAdds>>
  /\ UNCHANGED notMon

\* internal_monitor.py:251-255  get_most_urgent_trigger: the first trigger of
\* greatest urgency, None when there is none
GetMostUrgentTrigger(ts) ==
  IF ts = << >> THEN None
  ELSE ts[CHOOSE i \in 1..Len(ts) :
            /\ \A j \in 1..Len(ts) : ts[j].urgency <= ts[i].urgency
            /\ \A j \in 1..(i - 1) : ts[j].urgency < ts[i].urgency]

\* internal_monitor.py:257-259  has_triggers
HasTriggers(ts, minUrgency) ==
  \E i \in 1..Len(ts) : ts[i].urgency >= minUrgency

\* time passes
MonTick ==
  /\ mClock < MaxMonClock
  /\ mClock' = mClock + 1
  /\ mFresh' = FALSE
  /\ mPrevTriggers' = << >>
  /\ mFailed' = {}
  /\ UNCHANGED <<mStore, mGoals, triggers, mAdds>>
  /\ UNCHANGED notMon

\* storage.py:193-223  add_content of a new record stamped with the current
\* time: it is listed before every record with an earlier timestamp
AddContent(k) ==
  /\ mAdds < MaxAdds
  /\ LET rec == ContentRecord(k.published, k.rejected, k.topic,
                              k.quality_score, mClock)
         later == SelectSeq(mStore, LAMBDA r : r.timestamp > mClock)
         earlier == SelectSeq(mStore, LAMBDA r : r.timestamp <= mClock)
     IN mStore' = later \o << rec >> \o earlier
  /\ mAdds' = mAdds + 1
  /\ mFresh' = FALSE
  /\ mPrevTriggers' = << >>
  /\ mFailed' = {}
  /\ UNCHANGED <<mGoals, mClock, triggers>>
  /\ UNCHANGED notMon

AddContentAny == \E k \in AddedKinds : AddContent(k)

NextMon ==
  \/ CheckState
  \/ MonTick
  \/ AddContentAny


(***************************************************************************)
(* The monitor's rules over longer histories: check_state() applied to     *)
(* histories drawn from two families, one of quality scores and one of     *)
(* topics.                                                                 *)
(***************************************************************************)

\* most scored or unscored records after the padding of a score history
MaxScored == 8
\* most unscored records at the head of a score history
MaxPad == 3
\* longest first run of a topic history
MaxHead == 5
\* longest second run of a topic history
MaxMiddle == 18
\* longest third run of a topic history
MaxTail == 3

\* quality scores of the score histories, None for an unscored record
TrendScores == {None, 40, 60}

\* a published record of the given score / of the given topic
ScoreRecord(score) == ContentRecord(TRUE, FALSE, "", score, -1)
TopicRecord(topic) == ContentRecord(TRUE, FALSE, topic, None, -1)

\* topics of the topic histories, "" for a record without topic
Topics == {"a", "b", ""}

\* histories of scores: unscored records, then any sequence of scores
ScoreHistories ==
  { Run(ScoreRecord(None), p) \o s :
      p \in 0..MaxPad,
      s \in UNION { [1..n -> {ScoreRecord(x) : x \in TrendScores}] :
                      n \in 0..MaxScored } }

\* histories of topics: three runs of records of one topic each
TopicHistories ==
  { Run(TopicRecord(t1), n1) \o Run(TopicRecord(t2), n2)
      \o Run(TopicRecord(t3), n3) :
      t1 \in Topics, t2 \in Topics, t3 \in Topics,
      n1 \in 0..MaxHead, n2 \in 0..MaxMiddle, n3 \in 0..MaxTail }

\* the state after InternalStateMonitor.__init__ over such a history
HistInit ==
  /\ mStore \in ScoreHistories \cup TopicHistories
  /\ mGoals = SystemGoals("moderate", << >>)
  /\ mClock = 0
  /\ triggers = << >>
  /\ mPrevTriggers = << >>
  /\ mFailed = {}
  /\ mFresh = FALSE
  /\ mAdds = 0

NextHist ==
  \/ CheckState

(***************************************************************************)
(* Personality drift (core/personality.py)                                 *)
(* Traits, rates and experience values are in thousandths (0.5 = 500).     *)
(***************************************************************************)

\* number of drift calls with arbitrary experience explored
MaxDrifts == 3

\* no drift call yet
NoValue == -9999

\* personality.py:21-23, 27  the dataclass defaults 0.5 and 0.01
DefaultTrait == 500
DefaultDriftRate == 10

\* values personality.json may hold for tension, boldness and depth
LoadedValues == {-200, DefaultTrait, 1200}
\* values personality.json may hold for drift_rate
LoadedRates == {0, DefaultDriftRate, 500}

\* experience values drift is called with
RejectionRates == {0, 500, 2000}
QualityAvgs == {100, 900}

\* personality.py:60-69  Personality.from_dict: each field as the file gives
\* it, the default where the file has none
FromDict(data) ==
  [tension |-> data.tension, boldness |-> data.boldness,
   depth |-> data.depth, last_update |-> data.last_update,
   drift_rate |-> data.drift_rate]

\* personality.py:50-58  Personality.to_dict
ToDict(t, b, dp, lu, r) ==
  [tension |-> t, boldness |-> b, depth |-> dp, last_update |-> lu,
   drift_rate |-> r]

\* personality.json after open(..., "w") truncated it and the write failed
TornFile ==
  [tension |-> NoValue, boldness |-> NoValue, depth |-> NoValue,
   last_update |-> NoValue, drift_rate |-> NoValue]

\* how PersonalityManager.save can end: the file is written; mkdir or open
\* raised and the file is as it was; json.dump raised after the truncation.
\* save catches the exception and logs it in both failing cases
SaveOutcomes == {"written", "not_opened", "torn"}

\* personality.py:84-99  PersonalityManager.__init__ / _load: the content of
\* personality.json, or Personality() when there is no file
PersInit ==
  /\ \E t \in LoadedValues, b \in LoadedValues, dp \in LoadedValues,
        r \in LoadedRates :
       LET p == FromDict([tension |-> t, boldness |-> b, depth |-> dp,
                          last_update |-> 0, drift_rate |-> r])
       IN /\ tension = p.tension
          /\ boldness = p.boldness
          /\ depth = p.depth
          /\ driftRate = p.drift_rate
          /\ lastUpdate = p.last_update
          /\ pFile = ToDict(p.tension, p.boldness, p.depth, p.last_update,
                            p.drift_rate)
  /\ pPrevBoldness = NoValue
  /\ pDrifts = 0

\* the personality component at rest: Personality()
PersIdle ==
  /\ tension = DefaultTrait
  /\ boldness = DefaultTrait
  /\ depth = DefaultTrait
  /\ driftRate = DefaultDriftRate
  /\ lastUpdate = 0
  /\ pFile = ToDict(DefaultTrait, DefaultTrait, DefaultTrait, 0, DefaultDriftRate)
  /\ pPrevBoldness = NoValue
  /\ pDrifts = 0

\* max(0.0, min(1.0, x))
Clamp01(x) == IF x < 0 THEN 0 ELSE IF x > 1000 THEN 1000 ELSE x

\* personality.py:37  (rejection_rate - 0.5) * self.drift_rate
TensionChange(rejectionRate, rate) == ((rejectionRate - 500) * rate) \div 1000

\* personality.py:41 with the sign of the success branch reversed
BoldnessChange_Reversed(qualityAvg, success, rate) ==
  IF success THEN ((500 - qualityAvg) * rate) \div 1000
  ELSE (-(rate * 500)) \div 1000

\* personality.py:41  (quality_avg - 0.5) * drift_rate if publication_success
\* else -drift_rate * 0.5
BoldnessChange(qualityAvg, success, rate) ==
  IF success THEN ((qualityAvg - 500) * rate) \div 1000
  ELSE (-(rate * 500)) \div 1000

\* personality.py:45  min(1.0, self.depth + self.drift_rate * 0.1)
DepthAfter(d, rate) ==
  LET x == d + (rate * 100) \div 1000 IN IF x > 1000 THEN 1000 ELSE x

\* personality.py:29-48  Personality.drift; last_update = get_timestamp()
\* (line 47) is followed up to MaxDrifts
DriftTo(rejectionRate, qualityAvg, success) ==
  /\ tension' = Clamp01(tension + TensionChange(rejectionRate, driftRate))
  /\ boldness' = Clamp01(boldness + BoldnessChange(qualityAvg, success, driftRate))
  /\ depth' = DepthAfter(depth, driftRate)
  /\ lastUpdate' = Min2(lastUpdate + 1, MaxDrifts)
  /\ pPrevBoldness' = boldness
  /\ UNCHANGED driftRate

\* personality.py:101-109  PersonalityManager.save of the drifted state
SaveTo(outcome) ==
  pFile' = CASE outcome = "written" ->
                  ToDict(tension', boldness', depth', lastUpdate', driftRate')
             [] outcome = "not_opened" -> pFile
             [] outcome = "torn" -> TornFile

\* personality.py:29-48  Personality.drift called on the object that
\* get_personality() hands out (entity.py:75 puts it on the context), with an
\* arbitrary experience
Drift ==
  /\ pDrifts < MaxDrifts
  /\ \E rr \in RejectionRates, q \in QualityAvgs, ok \in BOOLEAN :
       DriftTo(rr, q, ok)
  /\ pDrifts' = pDrifts + 1
  /\ UNCHANGED pFile
  /\ UNCHANGED notPers

\* personality.py:111-114  update_from_experience with an arbitrary
\* experience: drift, then save
UpdateFromExperience ==
  /\ pDrifts < MaxDrifts
  /\ \E rr \in RejectionRates, q \in QualityAvgs, ok \in BOOLEAN :
       DriftTo(rr, q, ok)
  /\ \E outcome \in SaveOutcomes : SaveTo(outcome)
  /\ pDrifts' = pDrifts + 1
  /\ UNCHANGED notPers

\* personality.py:29-48  drift({"quality_avg": 0.9, "publication_success":
\* True}) (rejection_rate absent: 0.5, personality.py:32)
DriftSuccess ==
  /\ DriftTo(500, 900, TRUE)
  /\ UNCHANGED pFile
  /\ UNCHANGED pDrifts
  /\ UNCHANGED notPers

\* personality.py:71-78  get_style_modifiers
StyleModifiers ==
  [risk_taking |-> boldness, detail_level |-> depth, urgency |-> tension]

NextPers ==
  \/ Drift
  \/ UpdateFromExperience

NextBold ==
  \/ DriftSuccess

(***************************************************************************)
(* MemoryIndex, MemoryStorage.add_entry and the embedding backend          *)
(* (memory/index.py, memory/storage.py, memory/embeddings.py)              *)
(* An embedding is a pair of integers; similarities are in hundredths.     *)
(***************************************************************************)

\* number of add calls explored
MaxIdxAdds == 3

\* index.py:59  search_entries(entry_type=entry_type, limit=1000), scaled to
\* the size of the stores explored
CandidateLimit == 2

\* record ids; they are opaque, so a record with a new id takes the first
\* unused one
EntryIds == <<"e1", "e2", "e3">>
IdChoices(entries) ==
  {EntryIds[i] : i \in 1..(IF Len(entries) < Len(EntryIds)
                            THEN Len(entries) + 1 ELSE Len(EntryIds))}

\* the records add_with_embedding is called with: <<entry_type, text>>
AddPayloads == { <<"content", "x">>, <<"topic", "y">> }

\* the texts queries are made with
QueryTexts == {"x", "w"}

\* thresholds of check_repetition (0.85 is the default, index.py:92)
Thresholds == {85, 95}

\* the calls of search_similar explored: <<entry_type, threshold, top_k>>
\* for the query "w"; 0.8 is the similarity of "w" to "x", 0.9 lies between
\* that and the similarity of "w" to "y"; top_k is a count of results
SearchCalls ==
  { <<"", 80, 0>>, <<"", 80, 1>>, <<"", 80, 2>>, <<"", 90, 2>>,
    <<"content", 80, 2>>, <<"content", 90, 1>> }

\* what the sentence-transformers model returns for a text
Embed(text) ==
  CASE text = "x" -> <<1, 0>>
    [] text = "y" -> <<2, 1>>
    [] text = "w" -> <<4, 3>>
    [] OTHER -> <<0, 0>>

\* embeddings.py:15-26  what get_embedder() does on this installation:
\*   "ok"       the model loads
\*   "missing"  import raises ImportError: returns None
\*   "broken"   import or SentenceTransformer(...) raises another exception
\*              (model files cannot be loaded): the exception propagates
Backends == {"ok", "missing", "broken"}

\* an embedding of None
NoVector == << >>
\* an entry_type of None
AnyType == ""

\* embeddings.py:29-40  generate_embedding(text): it raises, or returns None
\* or a vector
GenerateEmbedding(backend, encodeFails, text) ==
  IF backend = "broken" THEN [raised |-> TRUE, embedding |-> NoVector]
  ELSE IF backend = "missing" THEN [raised |-> FALSE, embedding |-> NoVector]
  ELSE IF encodeFails THEN [raised |-> FALSE, embedding |-> NoVector]
  ELSE [raised |-> FALSE, embedding |-> Embed(text)]

Dot(u, v) == u[1] * v[1] + u[2] * v[2]

\* embeddings.py:43-59  cosine_similarity, in hundredths rounded toward zero;
\* 0.0 when a norm is zero
CosineOf(u, v) ==
  LET d == Dot(u, v)
      n == Dot(u, u) * Dot(v, v)
      a == IF d < 0 THEN -d ELSE d
      s == CHOOSE k \in 0..100 :
             /\ k * k * n <= 10000 * a * a
             /\ (k = 100 \/ (k + 1) * (k + 1) * n > 10000 * a * a)
  IN IF n = 0 THEN 0 ELSE IF d < 0 THEN -s ELSE s

\* the vectors the model embeds texts to
Vectors == {Embed(t) : t \in {"x", "y", "w", ""}}

\* cosine_similarity tabulated over the vectors in use
CosineTable == [p \in Vectors \X Vectors |-> CosineOf(p[1], p[2])]

CosineSimilarity(u, v) == CosineTable[<<u, v>>]

MemoryEntry(id, ts, type, text, emb) ==
  [id |-> id, timestamp |-> ts, entry_type |-> type, text |-> text,
   embedding |-> emb]

NoResult == [op |-> "none", raised |-> FALSE]

IdxInit ==
  /\ xEntries = << >>
  /\ xBackend \in Backends
  /\ xResult = NoResult
  /\ xFirst = << >>
  /\ xAdds = 0

IdxIdle ==
  /\ xEntries = << >>
  /\ xBackend = "ok"
  /\ xResult = NoResult
  /\ xFirst = << >>
  /\ xAdds = 0

\* storage.py:102-114  INSERT OR REPLACE INTO memory_entries: the row with
\* this id, if any, is replaced; rows are listed newest first
InsertOrReplace(entries, e) ==
  << e >> \o SelectSeq(entries, LAMBDA r : r.id # e.id)

\* history: the records in the order they were first stored under their ids
RecordFirst(first, e) ==
  IF \E i \in 1..Len(first) : first[i].id = e.id THEN first
  ELSE Append(first, [id |-> e.id, timestamp |-> e.timestamp,
                      entry_type |-> e.entry_type, text |-> e.text])

\* index.py:19-27  add_with_embedding(entry) with entry.embedding None;
\* index.py:29-42: an empty text is not embedded
AddWithEmbedding(id, payload, encodeFails) ==
  /\ xAdds < MaxIdxAdds
  /\ xAdds' = xAdds + 1
  /\ LET type == payload[1]
         text == payload[2]
         g == IF text = "" THEN [raised |-> FALSE, embedding |-> NoVector]
              ELSE GenerateEmbedding(xBackend, encodeFails, text)
         e == MemoryEntry(id, xAdds + 1, type, text, g.embedding)
     IN IF g.raised
        THEN /\ xResult' = [op |-> "add", raised |-> TRUE, id |-> id]
             /\ UNCHANGED <<xEntries, xFirst>>
        ELSE /\ xEntries' = InsertOrReplace(xEntries, e)
             /\ xFirst' = RecordFirst(xFirst, e)
             /\ xResult' = [op |-> "add", raised |-> FALSE, id |-> id]
  /\ UNCHANGED xBackend
  /\ UNCHANGED notIdx

AddWithEmbeddingAny ==
  \E id \in IdChoices(xEntries), p \in AddPayloads, f \in BOOLEAN :
    /\ (f => xBackend = "ok")
    /\ AddWithEmbedding(id, p, f)

\* explanation.py:55-72, storage.py:96-120  add_entry of a record built
\* without an embedding (id "explanation_<action_id>")
AddEntry(id) ==
  /\ xAdds < MaxIdxAdds
  /\ xAdds' = xAdds + 1
  /\ LET e == MemoryEntry(id, xAdds + 1, "explanation", "", NoVector)
     IN /\ xEntries' = InsertOrReplace(xEntries, e)
        /\ xFirst' = RecordFirst(xFirst, e)
  /\ xResult' = [op |-> "add", raised |-> FALSE, id |-> id]
  /\ UNCHANGED xBackend
  /\ UNCHANGED notIdx

AddEntryAny == \E id \in IdChoices(xEntries) : AddEntry(id)

\* storage.py:150-191  search_entries(entry_type, limit): newest first
SearchEntries(entries, type, limit) ==
  LET sel == IF type = AnyType THEN entries
             ELSE SelectSeq(entries, LAMBDA r : r.entry_type = type)
  IN SubSeq(sel, 1, IF Len(sel) < limit THEN Len(sel) ELSE limit)

\* embeddings.py:77  similarities.sort(key=..., reverse=True): a stable sort
RECURSIVE SortBySimilarity(_)
SortBySimilarity(s) ==
  IF s = << >> THEN << >>
  ELSE LET i == CHOOSE j \in 1..Len(s) :
                  /\ \A k \in 1..Len(s) : s[k][2] <= s[j][2]
                  /\ \A k \in 1..(j - 1) : s[k][2] < s[j][2]
           rest == [k \in 1..(Len(s) - 1) |-> IF k < i THEN s[k] ELSE s[k + 1]]
       IN << s[i] >> \o SortBySimilarity(rest)

\* find_similar dropping a candidate whose similarity equals the threshold
FindSimilar_StrictThreshold(target, candidates, threshold, topK) ==
  LET sims == [i \in 1..Len(candidates) |->
                 << candidates[i].id,
                    CosineSimilarity(target, candidates[i].embedding) >>]
      kept == SelectSeq(sims, LAMBDA p : p[2] > threshold)
      sorted == SortBySimilarity(kept)
  IN SubSeq(sorted, 1, IF Len(sorted) < topK THEN Len(sorted) ELSE topK)

\* embeddings.py:62-79  find_similar over <<id, embedding>> candidates
FindSimilar(target, candidates, threshold, topK) ==
  LET sims == [i \in 1..Len(candidates) |->
                 << candidates[i].id,
                    CosineSimilarity(target, candidates[i].embedding) >>]
      kept == SelectSeq(sims, LAMBDA p : p[2] >= threshold)
      sorted == SortBySimilarity(kept)
  IN SubSeq(sorted, 1, IF Len(sorted) < topK THEN Len(sorted) ELSE topK)

\* index.py:44-87  search_similar once the query is embedded
SearchSimilarWith(entries, queryEmbedding, type, threshold, topK) ==
  IF queryEmbedding = NoVector THEN << >>
  ELSE LET candidates == SearchEntries(entries, type, CandidateLimit)
           withEmb == SelectSeq(candidates, LAMBDA r : r.embedding # NoVector)
       IN IF withEmb = << >> THEN << >>
          ELSE FindSimilar(queryEmbedding, withEmb, threshold, topK)

\* index.py:44-87  search_similar(query, entry_type, threshold, top_k)
SearchSimilar(query, type, threshold, topK, encodeFails) ==
  /\ LET q == GenerateEmbedding(xBackend, encodeFails, query)
     IN xResult' =
          IF q.raised
          THEN [op |-> "search_similar", raised |-> TRUE, query |-> query]
          ELSE [op |-> "search_similar", raised |-> FALSE, query |-> query,
                embedded |-> (q.embedding # NoVector), type |-> type,
                threshold |-> threshold, top_k |-> topK,
                result |-> SearchSimilarWith(xEntries, q.embedding, type,
                                             threshold, topK)]
  /\ UNCHANGED <<xEntries, xBackend, xFirst, xAdds>>
  /\ UNCHANGED notIdx

SearchSimilarAny ==
  \E c \in SearchCalls, f \in BOOLEAN :
    /\ (f => xBackend = "ok" /\ c = <<"", 80, 2>>)
    /\ SearchSimilar("w", c[1], c[2], c[3], f)

\* index.py:97  if similar and similar[0][1] >= threshold
RepetitionFound(similar, threshold) ==
  similar # << >> /\ similar[1][2] >= threshold

\* index.py:89-99  check_repetition(text, threshold)
IndexCheckRepetition(text, threshold, encodeFails) ==
  /\ LET q == GenerateEmbedding(xBackend, encodeFails, text)
         similar == SearchSimilarWith(xEntries, q.embedding, AnyType,
                                      threshold, 1)
     IN xResult' =
          IF q.raised
          THEN [op |-> "check_repetition", raised |-> TRUE, query |-> text]
          ELSE [op |-> "check_repetition", raised |-> FALSE, query |-> text,
                embedded |-> (q.embedding # NoVector), threshold |-> threshold,
                found |-> RepetitionFound(similar, threshold),
                entry |-> IF RepetitionFound(similar, threshold)
                          THEN similar[1][1] ELSE "none"]
  /\ UNCHANGED <<xEntries, xBackend, xFirst, xAdds>>
  /\ UNCHANGED notIdx

IndexCheckRepetitionAny ==
  \E text \in QueryTexts, thr \in Thresholds, f \in BOOLEAN :
    /\ (f => xBackend = "ok" /\ text = "x" /\ thr = 85)
    /\ IndexCheckRepetition(text, thr, f)

NextIdx ==
  \/ AddWithEmbeddingAny
  \/ AddEntryAny
  \/ SearchSimilarAny
  \/ IndexCheckRepetitionAny

(***************************************************************************)
(* RateLimiter (ai/router.py)                                              *)
(* Time is counted in clock units; callers are the coroutines that call    *)
(* acquire() or wait_for_slot() (AIRouter.generate, router.py:93-94).      *)
(***************************************************************************)

\* last clock value explored by the rate limiter model
MaxRateClock == 4
\* number of concurrent callers
NCallers == 2
\* RateLimiter.max_requests (router.py:18, 58), scaled
MaxRequests == 2
\* RateLimiter.window_seconds (router.py:18, 58), in clock units
WindowSeconds == 2
\* router.py:48  min(wait_seconds, 1.0): the longest sleep, in clock units
SleepCap == 1

Callers == 1..NCallers
RateTimes == 0..MaxRateClock

NoCall == [caller |-> 0, ok |-> FALSE]

\* router.py:18-22 after __init__
RateInit ==
  /\ rClock = 0
  /\ requestTimes = << >>
  /\ rPc = [c \in Callers |-> "idle"]
  /\ rWake = [c \in Callers |-> 0]
  /\ rLast = NoCall
  /\ rGranted = [t \in RateTimes |-> 0]

\* the component at rest, for the specifications of the other components
RateIdle ==
  /\ rClock = 0
  /\ requestTimes = << >>
  /\ rPc = << >>
  /\ rWake = << >>
  /\ rLast = NoCall
  /\ rGranted = << >>

\* variant: a request is dropped as soon as its age reaches the window
Expired_AtWindow(age) == age >= WindowSeconds

\* router.py:30  (now - self.request_times[0]).total_seconds() > self.window_seconds
Expired(age) == age > WindowSeconds

\* router.py:30-31  drop the requests outside the window from the left
RECURSIVE PruneOld(_, _)
PruneOld(times, t) ==
  IF times # << >> /\ Expired(t - times[1])
    THEN PruneOld(Tail(times), t)
    ELSE times

\* router.py:24-38  acquire() at time t: the body runs under the lock and
\* holds no await, so no other coroutine runs inside it
AcquireAt(times, t) ==
  LET kept == PruneOld(times, t)
  IN IF Len(kept) < MaxRequests
       THEN [ok |-> TRUE, times |-> Append(kept, t)]
       ELSE [ok |-> FALSE, times |-> kept]

\* the effect of one acquire() call by caller c
AcquireBy(c) ==
  LET r == AcquireAt(requestTimes, rClock)
  IN /\ requestTimes' = r.times
     /\ rLast' = [caller |-> c, ok |-> r.ok]
     /\ rGranted' = IF r.ok THEN [rGranted EXCEPT ![rClock] = @ + 1]
                    ELSE rGranted

\* time passes while every coroutine is suspended
RateTick ==
  /\ rClock < MaxRateClock
  /\ rClock' = rClock + 1
  /\ UNCHANGED <<requestTimes, rPc, rWake, rLast, rGranted>>
  /\ UNCHANGED notRate

\* router.py:24-38  a caller outside wait_for_slot calls acquire()
Acquire(c) ==
  /\ rPc[c] = "idle"
  /\ AcquireBy(c)
  /\ UNCHANGED <<rClock, rPc, rWake>>
  /\ UNCHANGED notRate

\* router.py:42-50  one iteration of the loop of wait_for_slot: acquire();
\* on False, sleep min(wait_seconds, 1.0) if wait_seconds > 0, loop at once
\* if it is not, sleep 0.1 if no request is recorded
WaitIteration(c) ==
  /\ AcquireBy(c)
  /\ LET r == AcquireAt(requestTimes, rClock)
         wait == WindowSeconds - (rClock - r.times[1])
     IN IF r.ok
          THEN /\ rPc' = [rPc EXCEPT ![c] = "idle"]
               /\ rWake' = [rWake EXCEPT ![c] = 0]
          ELSE IF r.times = << >>
            THEN /\ rPc' = [rPc EXCEPT ![c] = "sleep"]
                 /\ rWake' = [rWake EXCEPT ![c] = rClock]
          ELSE IF wait > 0
            THEN /\ rPc' = [rPc EXCEPT ![c] = "sleep"]
                 /\ rWake' = [rWake EXCEPT ![c] =
                                rClock + (IF wait < SleepCap THEN wait ELSE SleepCap)]
            ELSE /\ rPc' = [rPc EXCEPT ![c] = "retry"]
                 /\ rWake' = [rWake EXCEPT ![c] = 0]
  /\ UNCHANGED rClock
  /\ UNCHANGED notRate

\* router.py:40-42  a caller calls wait_for_slot()
WaitForSlot(c) ==
  /\ rPc[c] = "idle"
  /\ WaitIteration(c)

\* router.py:42-50  the sleep of a waiting caller is over, or it loops at once
WaitResume(c) ==
  /\ \/ rPc[c] = "retry"
     \/ rPc[c] = "sleep" /\ rClock >= rWake[c]
  /\ WaitIteration(c)

NextRate ==
  \/ RateTick
  \/ \E c \in Callers : Acquire(c)
  \/ \E c \in Callers : WaitForSlot(c)
  \/ \E c \in Callers : WaitResume(c)

(***************************************************************************)
(* Specifications: one per component, the other components at rest         *)
(***************************************************************************)

\* the Scheduler component at rest
SchedIdle ==
  /\ clock = 0
  /\ tasks = << >>
  /\ running = FALSE
  /\ loopPc = "none"
  /\ now = 0
  /\ idx = 1
  /\ wake = 0
  /\ urgency = NoTrigger
  /\ cbState = << >>
  /\ entityRunning = FALSE
  /\ initPending = 0
  /\ initRunning = 0
  /\ starts = 0
  /\ evaluated = {}
  /\ started = {}
  /\ raised = {}

InitSched == SchedInit /\ AdvIdle /\ CycleIdle /\ PipeIdle /\ MonIdle /\ PersIdle /\ IdxIdle /\ RateIdle
SpecSched == InitSched /\ [][NextSched]_vars

InitAdv == AdvInit /\ SchedIdle /\ CycleIdle /\ PipeIdle /\ MonIdle /\ PersIdle /\ IdxIdle /\ RateIdle
SpecAdv == InitAdv /\ [][NextAdv]_vars

InitCycle == CycleInit /\ SchedIdle /\ AdvIdle /\ PipeIdle /\ MonIdle /\ PersIdle /\ IdxIdle /\ RateIdle
SpecCycle == InitCycle /\ [][NextCycle]_vars

InitPipe == PipeInit /\ SchedIdle /\ AdvIdle /\ CycleIdle /\ MonIdle /\ PersIdle /\ IdxIdle /\ RateIdle
SpecPipe == InitPipe /\ [][NextPipe]_vars

InitMon == MonInit /\ AdvIdle /\ CycleIdle /\ PipeIdle /\ SchedIdle /\ PersIdle /\ IdxIdle /\ RateIdle
SpecMon == InitMon /\ [][NextMon]_vars

InitHist == HistInit /\ AdvIdle /\ CycleIdle /\ PipeIdle /\ SchedIdle /\ PersIdle /\ IdxIdle /\ RateIdle
SpecHist == InitHist /\ [][NextHist]_vars

InitPers == PersInit /\ AdvIdle /\ CycleIdle /\ MonIdle /\ PipeIdle /\ SchedIdle /\ IdxIdle /\ RateIdle
SpecPers == InitPers /\ [][NextPers]_vars
\* repeated successful drift calls only, each eventually made
SpecBold == InitPers /\ [][NextBold]_vars /\ WF_vars(DriftSuccess)

InitIdx == IdxInit /\ AdvIdle /\ CycleIdle /\ MonIdle /\ PersIdle /\ PipeIdle /\ SchedIdle /\ RateIdle
SpecIdx == InitIdx /\ [][NextIdx]_vars

InitRate ==
  /\ RateInit /\ AdvIdle /\ CycleIdle /\ MonIdle /\ PersIdle /\ PipeIdle /\ SchedIdle
  /\ IdxIdle
SpecRate == InitRate /\ [][NextRate]_vars

(***************************************************************************)
(* Claims about the Scheduler and the Entity (checked under SpecSched)     *)
(***************************************************************************)

\* content-pipeline runs in progress: the scheduler's callback of the content
\* task plus the cycles created by Entity.start (entity.py:162)
ActiveRuns == initRunning + (IF cbState[ContentIdx] = "running" THEN 1 ELSE 0)

IsTickStartStep == loopPc \in {"created", "sleep"} /\ loopPc' = "eval"

\* C4: in a tick whose most urgent trigger has urgency >= 0.6 while the main
\* task is enabled, the monitor step leaves the main task's next_run <= now and
\* the main task's callback is started when its slot is evaluated in that tick;
\* a most urgent trigger below 0.6 leaves next_run unchanged.
C4_Preemption ==
  [][ /\ (IsTickStartStep /\ urgency' >= 60 /\ tasks[ContentIdx].enabled)
           => /\ tasks'[ContentIdx].next_run # None
              /\ tasks'[ContentIdx].next_run <= now'
      /\ (IsTickStartStep /\ urgency' >= 0 /\ urgency' < 60)
           => tasks'[ContentIdx].next_run = tasks[ContentIdx].next_run
      /\ (loopPc = "eval" /\ idx = ContentIdx /\ urgency >= 60
            /\ tasks[ContentIdx].enabled /\ <<loopPc, idx>>' # <<loopPc, idx>>)
           => /\ loopPc' = "callback"
              /\ cbState'[ContentIdx] = "running" ]_vars

\* C4 witness: the main task's callback runs in a preempted tick although its
\* own interval since the last run has not elapsed
C4_Witness ==
  /\ loopPc = "callback" /\ idx = ContentIdx /\ urgency >= 60
  /\ tasks[ContentIdx].last_run # None
  /\ now < tasks[ContentIdx].last_run + tasks[ContentIdx].interval

\* task i's callback returns in this step (scheduler.py:103-104 follow)
IsReturnStep(i) ==
  cbState[i] = "running" /\ cbState'[i] = "idle" /\ running' /\ i \notin raised'

\* task i's callback raises in this step
IsRaiseStep(i) == i \in raised' /\ i \notin raised

\* C5 as stated: each firing of an interval task sets next_run to exactly the
\* previous next_run + I, and next_run never decreases.
C5_Original ==
  [][ \A i \in TaskIds :
        /\ IsReturnStep(i)
             => tasks'[i].next_run = tasks[i].next_run + tasks[i].interval
        /\ (tasks[i].next_run # None /\ tasks'[i].next_run # None)
             => tasks'[i].next_run >= tasks[i].next_run ]_vars

\* C5 amended: a firing whose callback returns sets next_run to exactly that
\* tick's now + I (not the previous next_run + I); a firing whose callback
\* raises leaves next_run unchanged; next_run moves backward only when monitor
\* preemption or enable_task resets it to the current time, or when a callback
\* returns after an enable_task issued while it was in flight.
C5_Amended ==
  [][ \A i \in TaskIds :
        /\ IsReturnStep(i) => tasks'[i].next_run = now + tasks[i].interval
        /\ IsRaiseStep(i) => tasks'[i].next_run = tasks[i].next_run
        /\ (tasks[i].next_run # None /\ tasks'[i].next_run # None
              /\ tasks'[i].next_run < tasks[i].next_run)
             => \/ /\ IsTickStartStep /\ i = ContentIdx /\ urgency' >= 60
                   /\ tasks'[i].next_run = clock
                \/ /\ loopPc' = loopPc /\ tasks'[i].enabled
                   /\ tasks'[i].next_run = clock
                \/ IsReturnStep(i) /\ tasks[i].next_run > now ]_vars

\* C5 witness: a task has fired in a tick later than its scheduled next_run
\* (registered due at 0, fired at last_run >= 1) and was rescheduled from that
\* tick's time
C5_Witness ==
  \E i \in TaskIds :
    /\ tasks[i].last_run # None /\ tasks[i].last_run >= 1
    /\ tasks[i].next_run = tasks[i].last_run + tasks[i].interval
    /\ loopPc = "eval" /\ idx = i + 1

\* C8: a stop() issued while a callback is in flight does not interrupt the
\* callback: it is still in flight after the stop step and ends only by
\* returning or raising.
C8_CallbackSurvivesStop ==
  [][ (running /\ ~running')
        => \A i \in TaskIds : cbState[i] = "running" => cbState'[i] = "running" ]_vars

\* C9: no two task callbacks execute at the same time, and whenever the loop
\* evaluates due-ness (in any tick) no callback started earlier is unfinished.
C9_Sequential ==
  /\ Cardinality({i \in TaskIds : cbState[i] = "running"}) <= 1
  /\ loopPc = "eval" => \A i \in TaskIds : cbState[i] = "idle"
  /\ \A i \in TaskIds : cbState[i] = "running" => (loopPc = "callback" /\ idx = i)

\* C9 witness: a callback is executing while a later task is enabled and due
C9_Witness ==
  /\ loopPc = "callback" /\ idx = 1 /\ cbState[1] = "running"
  /\ tasks[2].enabled /\ tasks[2].next_run # None /\ tasks[2].next_run <= now

\* C10: when a callback raises, the loop carries on with the next slot of the
\* same tick; no later slot is skipped unless its task is disabled or not due;
\* the tick ends in the sleep that precedes the next tick with every slot
\* evaluated.
C10_RaiseAbsorbed ==
  [][ /\ (\E i \in TaskIds : IsRaiseStep(i))
           => /\ running' /\ loopPc' = "eval"
              /\ \A i \in TaskIds : cbState'[i] = "idle"
      /\ (raised # {} /\ loopPc = "eval" /\ loopPc' = "eval" /\ idx' # idx)
           => ~ ( /\ tasks[idx].enabled
                  /\ (tasks[idx].next_run = None \/ now >= tasks[idx].next_run) )
      /\ (raised # {} /\ loopPc = "eval" /\ loopPc' = "sleep")
           => /\ evaluated = TaskIds
              /\ running' ]_vars

\* C10 witness: the second task's callback runs in the tick in which the first
\* task's callback raised
C10_Witness == loopPc = "callback" /\ idx = 2 /\ 1 \in raised /\ 2 \in started

\* C20: stop() returns only after the tick loop has exited, and from then
\* until start() is called again no task callback is started or running and
\* no tick is evaluated.
C20_StopTerminates ==
  /\ [](~running => /\ loopPc \in {"none", "done"}
                    /\ \A i \in TaskIds : cbState[i] = "idle")
  /\ [][(~running /\ ~running')
          => /\ loopPc' = loopPc
             /\ cbState' = cbState
             /\ evaluated' = evaluated
             /\ started' = started]_vars

\* C20 witness: stop() has returned after cancelling a loop that had fired
\* a task, and time has passed since.
C20_Witness ==
  /\ ~running
  /\ loopPc = "done"
  /\ \E i \in TaskIds : tasks[i].last_run # None /\ tasks[i].last_run < clock


\* C23: when the invocation of a due task's callback ends, by returning or by
\* raising, the task's last_run is that tick's now and its next_run is
\* now + interval.
C23_RecordedAfterInvocation ==
  [][ \A i \in TaskIds :
        (IsReturnStep(i) \/ IsRaiseStep(i))
          => /\ tasks'[i].last_run = now
             /\ tasks'[i].next_run = now + tasks[i].interval ]_vars


\* the time of day t lies in the suppression window w = <<start, end>>
\* (the test of advanced_scheduler.py:79-86)
InWindow(w, t) ==
  IF w[1] > w[2] THEN t >= w[1] \/ t <= w[2] ELSE w[1] <= t /\ t <= w[2]

\* C25: the scheduler that consults the monitor applies the night-mode
\* suppression window: whatever window is active, no task (none of this
\* scheduler's tasks has a bypass flag) is started in a tick whose time of day
\* lies in it, the preempted main task included.
C25_SuppressionApplied ==
  [][ \A w \in NightWindows, i \in TaskIds :
        (i \in started' /\ i \notin started) => ~InWindow(w, TimeOf(now)) ]_vars

(***************************************************************************)
(* Claims about the AdvancedScheduler (checked under SpecAdv)              *)
(***************************************************************************)

\* the step in which the loop evaluates the slot of task i
IsAdvEvalStep(i) ==
  aPc = "eval" /\ aIdx = i /\ i <= Len(aTasks) /\ <<aPc, aIdx>>' # <<aPc, aIdx>>

\* C6: with night mode enabled and a window that wraps past midnight
\* (start > end), night mode is active exactly at the times of day from start
\* to the end of the day and from midnight to end; a task without the bypass
\* flag is not started when its slot is evaluated at such a time, and an
\* enabled, due interval task is started when its slot is evaluated at a time
\* strictly between end and start.
C6_NightMode ==
  [][ (nightEnabled /\ nightStart > nightEnd) =>
        LET t == TimeOf(aClock)
            night == t \in (nightStart..(DayLen - 1)) \cup (0..nightEnd)
        IN /\ IsNightMode(t) <=> night
           /\ \A i \in AdvIds :
                /\ (IsAdvEvalStep(i) /\ night /\ ~aTasks[i].skip_night_mode)
                     => (aPc' # "callback" /\ aRan'[i] = aRan[i])
                /\ (IsAdvEvalStep(i) /\ nightEnd < t /\ t < nightStart
                      /\ aTasks[i].enabled /\ aTasks[i].schedule_times = {}
                      /\ aTasks[i].interval # 0
                      /\ (aTasks[i].next_run = None \/ aTasks[i].next_run <= aClock))
                     => (aPc' = "callback" /\ aIdx' = i) ]_vars

\* C6 witness: in a window that wraps past midnight, the slot of an enabled,
\* due task without the bypass flag has just been passed over at a night time
C6_Witness ==
  /\ nightEnabled /\ nightStart > nightEnd
  /\ (TimeOf(aClock) >= nightStart \/ TimeOf(aClock) <= nightEnd)
  /\ aPc = "eval" /\ aIdx = 2
  /\ aTasks[1].enabled /\ ~aTasks[1].skip_night_mode
  /\ (aTasks[1].next_run = None \/ aTasks[1].next_run <= aClock)

\* the scheduled occurrences of time-of-day task i since its registration
Occurrences(i) ==
  { c \in 1..MaxAdvClock : TimeOf(c) \in aTasks[i].schedule_times }

\* C7: once the clock has passed a scheduled time of an enabled time-of-day
\* task, the first tick at or after that time whose evaluation night mode does
\* not suppress runs the task.
C7_TimeOfDayRuns ==
  \A i \in AdvIds :
    ( /\ aTasks[i].schedule_times # {}
      /\ aLastEval[i] # None
      /\ \E c \in Occurrences(i) : c <= aLastEval[i] )
    => aRan[i]

(***************************************************************************)
(* Claims about IntentLoop.run_cycle (checked under SpecCycle)             *)
(***************************************************************************)

\* C1: run_cycle never propagates an exception raised by a phase: it ends by
\* returning a Reflection, and when a phase raised, that Reflection's Result
\* is failed (success = false) and its should_retry is false.
C1_NeverRaises ==
  /\ cyPc # "raised"
  /\ cyPc = "returned" => cyReflection.present
  /\ (cyPc = "returned" /\ cyFailed)
       => (~cyReflection.success /\ ~cyReflection.should_retry)

(***************************************************************************)
(* Claims about Orchestrator.execute (checked under SpecPipe)              *)
(***************************************************************************)

\* C2: if the unit at position k raises, no unit at a later position is
\* invoked in that run, execute goes on to return, and the blackboard it
\* returns is the blackboard as it was when unit k was invoked (every key
\* written by the earlier units present with its value).
C2_StopOnFailure ==
  pFailedAt # 0 =>
    /\ pPc \in {"loop", "returned"}
    /\ pPc = "loop" => pIdx > PipeLen
    /\ \A j \in 1..Len(pInvoked) : pInvoked[j] <= pFailedAt
    /\ pShared = pAtInvoke

\* C2 witness: execute has returned after a unit that is not the first one
\* raised, earlier units had written keys, and a registered unit comes later
C2_Witness ==
  /\ pPc = "returned"
  /\ pFailedAt > 1
  /\ pShared # pCtx
  /\ \E j \in (pFailedAt + 1)..PipeLen : Pipeline[j] \in pAgents


\* position of a name in a sequence of distinct names
PositionIn(order, name) == CHOOSE k \in 1..Len(order) : order[k] = name

\* the names of the units invoked so far in this run, in invocation order
InvokedNames == [k \in 1..Len(pInvoked) |-> Pipeline[pInvoked[k]]]

\* C21: in a run in which no unit failed, the units are invoked in the order
\* in which they were registered: every registered unit is invoked, and a is
\* invoked before b if and only if a was registered before b.
C21_RegistrationOrder ==
  (pPc = "returned" /\ pFailedAt = 0)
    => /\ \A a \in pAgents : a \in NamesOf(InvokedNames)
       /\ \A a \in pAgents, b \in pAgents :
            (a \in NamesOf(InvokedNames) /\ b \in NamesOf(InvokedNames))
              => (PositionIn(InvokedNames, a) < PositionIn(InvokedNames, b)
                    <=> PositionIn(pRegistered, a) < PositionIn(pRegistered, b))

(***************************************************************************)
(* Claims about the InternalStateMonitor (checked under SpecMon)           *)
(***************************************************************************)

\* the 10 most recent content records are all rejected
TenRecentRejected ==
  /\ Len(mStore) >= RecentLimit
  /\ \A i \in 1..RecentLimit : mStore[i].rejected

\* fewer than 5 records carry a quality score
FewerThanFiveScored ==
  Cardinality({i \in 1..Len(mStore) : mStore[i].quality_score # None}) < MinRecords

TriggerNames(ts) == {ts[i].name : i \in 1..Len(ts)}

\* C11 as stated: with the 10 most recent records all rejected and fewer than
\* 5 scored records, check_state() returns exactly one trigger,
\* too_conservative with urgency 0.7.
C11_Original ==
  (mFresh /\ TenRecentRejected /\ FewerThanFiveScored)
    => triggers = << Trigger("too_conservative", 70) >>

\* the publication-silence, topic-repetition and goal-stagnation rules have
\* nothing to report: a recent record is published, and the latest
\* publication is recent enough or carries an unreadable timestamp; no topic
\* occurs 3 times among the last 20 records; no active goal of priority 7 or
\* more with a readable creation time is older than 7 days
OtherRulesQuiet ==
  LET n == Min2(RecentLimit, Len(mStore))
      pubs == {i \in 1..n : mStore[i].published}
      e == ExpectedInterval(mGoals.posting_frequency)
      gl == mGoals.content_goals
  IN /\ pubs # {}
     /\ \A i \in pubs :
          (\A j \in pubs : mStore[j].timestamp <= mStore[i].timestamp)
            => \/ mStore[i].timestamp = BadStamp
               \/ 2 * (mClock - mStore[i].timestamp) <= 3 * e
     /\ \A i \in 1..Min2(TopicLimit, Len(mStore)) :
          \/ mStore[i].topic = ""
          \/ Cardinality({j \in 1..Min2(TopicLimit, Len(mStore)) :
                            mStore[j].topic = mStore[i].topic}) < RepeatThreshold
     /\ \A g \in 1..Len(gl) :
          ~ /\ gl[g].active
            /\ gl[g].priority >= 7
            /\ gl[g].created_at \notin {NoStamp, BadStamp}
            /\ (mClock - gl[g].created_at) * HoursPerUnit > 7 * 24

\* C11 amended: with the 10 most recent records all rejected and fewer than 5
\* scored records, check_state() returns the too_conservative trigger with
\* urgency 0.7 exactly once and no quality_degradation trigger; any further
\* trigger comes from the silence, repetition or goal rules (no_publications
\* is returned whenever none of the 10 records is published), and
\* too_conservative is the only trigger when those three rules are quiet.
C11_Amended ==
  (mFresh /\ TenRecentRejected /\ FewerThanFiveScored)
    => /\ Cardinality({i \in 1..Len(triggers) :
                         triggers[i].name = "too_conservative"}) = 1
       /\ \A i \in 1..Len(triggers) :
            triggers[i].name = "too_conservative" => triggers[i].urgency = 70
       /\ TriggerNames(triggers) \subseteq
            {"too_conservative", "no_publications", "publication_silence",
             "topic_repetition", "goal_stagnation"}
       /\ (\A i \in 1..RecentLimit : ~mStore[i].published)
            => "no_publications" \in TriggerNames(triggers)
       /\ OtherRulesQuiet => triggers = << Trigger("too_conservative", 70) >>

\* C11 witness: a check over 10 rejected records, none scored, returned the
\* too_conservative trigger alone.
C11_Witness ==
  /\ mFresh /\ TenRecentRejected /\ FewerThanFiveScored
  /\ OtherRulesQuiet
  /\ triggers = << Trigger("too_conservative", 70) >>

\* C12: every trigger check_state() returned has an urgency within [0, 1].
C12_UrgencyInRange ==
  \A i \in 1..Len(triggers) :
    triggers[i].urgency >= 0 /\ triggers[i].urgency <= 100

\* C12 witness: a publication_silence trigger whose urgency formula was cut
\* off at 0.9 (the publication is more than 3.5 expected intervals old).
C12_Witness ==
  /\ mFresh
  /\ \E i \in 1..Len(triggers) :
       /\ triggers[i].name = "publication_silence"
       /\ triggers[i].urgency = 90
  /\ \E i \in 1..Len(mStore) :
       /\ mStore[i].published
       /\ mStore[i].timestamp # BadStamp
       /\ 2 * (mClock - mStore[i].timestamp)
            > 9 * ExpectedInterval(mGoals.posting_frequency)

\* the trigger names each rule can produce
RuleTriggerNames(rule) ==
  CASE rule = "publication_silence" -> {"no_publications", "publication_silence"}
    [] rule = "goal_progress" -> {"goal_stagnation"}
    [] OTHER -> {}

\* C17: a monitor rule that failed internally contributed no trigger to the
\* list check_state() returned (and check_state did not raise).
C17_FailedRuleSilent ==
  mFresh =>
    \A rule \in mFailed : TriggerNames(triggers) \cap RuleTriggerNames(rule) = {}

\* C18: check_state() is stateless: right after a call, the trigger list that
\* get_most_urgent_trigger() and has_triggers() read is exactly what the rules
\* yield on the current history, goals and clock, whatever calls preceded.
C18_Stateless ==
  mFresh =>
    LET result == CheckStateResult(mStore, mGoals, mClock)
    IN /\ triggers = result
       /\ GetMostUrgentTrigger(triggers) = GetMostUrgentTrigger(result)
       /\ \A u \in {50, 60, 70} :
            HasTriggers(triggers, u) <=> HasTriggers(result, u)

\* C18 witness: a call that followed an earlier call with other inputs; a
\* trigger of the earlier call is no longer listed.
C18_Witness ==
  /\ mFresh
  /\ mPrevTriggers # << >>
  /\ TriggerNames(mPrevTriggers) \ TriggerNames(triggers) # {}
  /\ triggers # << >>


\* C24: each rule contributes at most one trigger to a check_state() result:
\* the list holds at most five triggers and no two of them have the same
\* name.
C24_OneTriggerPerRule ==
  /\ Len(triggers) <= 5
  /\ \A i \in 1..Len(triggers), j \in 1..Len(triggers) :
       i # j => triggers[i].name # triggers[j].name


\* C26: check_state() returns the no_publications trigger (urgency 0.5)
\* exactly when no record of the whole history is published.
C26_NeverPublished ==
  mFresh =>
    /\ "no_publications" \in TriggerNames(triggers)
         <=> \A i \in 1..Len(mStore) : ~mStore[i].published
    /\ \A i \in 1..Len(triggers) :
         triggers[i].name = "no_publications" => triggers[i].urgency = 50


\* the sum of the quality scores of the records from..to of a sequence
RECURSIVE SumScores(_, _, _)
SumScores(s, from, to) ==
  IF from > to THEN 0 ELSE s[from].quality_score + SumScores(s, from + 1, to)

\* the scored records among the 10 most recent, newest first
ScoredRecent == SelectSeq(GetRecentContent(mStore, RecentLimit), HasScore)

\* C27 as stated: the quality-trend trigger (urgency 0.6) is returned exactly
\* when the average of the 3 most recent scores is below the average of the
\* next 5 scores minus 0.1 (stated here for the histories that hold those 8
\* scores); with fewer than 5 scored records it is not returned.
C27_Original ==
  mFresh =>
    LET scored == SelectSeq(mStore, HasScore)
    IN /\ Len(scored) < 5
            => "quality_degradation" \notin TriggerNames(triggers)
       /\ Len(scored) >= 8
            => ("quality_degradation" \in TriggerNames(triggers)
                  <=> 5 * SumScores(scored, 1, 3)
                        < 3 * SumScores(scored, 4, 8) - 150)

\* C27 amended: with at least 5 scored records among the 10 most recent
\* records, the quality-trend trigger (urgency 0.6) is returned exactly when
\* the average of the 3 most recent of those scores is below the average of
\* the next 2 minus 0.1; with fewer than 5 scored records among the 10 most
\* recent it is not returned.
C27_Amended ==
  mFresh =>
    /\ "quality_degradation" \in TriggerNames(triggers)
         <=> /\ Len(ScoredRecent) >= 5
             /\ 2 * SumScores(ScoredRecent, 1, 3)
                  < 3 * SumScores(ScoredRecent, 4, 5) - 60
    /\ \A i \in 1..Len(triggers) :
         triggers[i].name = "quality_degradation" => triggers[i].urgency = 60

\* C27 witness: a check over 8 scored records returned the trigger although
\* the 3 most recent scores are not below the next 5 by more than 0.1.
C27_Witness ==
  /\ mFresh
  /\ Len(ScoredRecent) >= 8
  /\ "quality_degradation" \in TriggerNames(triggers)
  /\ 5 * SumScores(ScoredRecent, 1, 3)
       >= 3 * SumScores(ScoredRecent, 4, 8) - 150


\* the number of rejected records among the 10 most recent
RejectedRecent ==
  Len(SelectSeq(GetRecentContent(mStore, RecentLimit), IsRejected))

\* C28 as stated: the too_conservative trigger (urgency 0.7) is returned
\* exactly when the history is not empty and more than 0.8 of the most recent
\* records (up to 10, however few) are rejected.
C28_Original ==
  mFresh =>
    LET n == Len(GetRecentContent(mStore, RecentLimit))
    IN "too_conservative" \in TriggerNames(triggers)
         <=> (n > 0 /\ 10 * RejectedRecent > 8 * n)

\* C28 amended: the too_conservative trigger (urgency 0.7) is returned exactly
\* when the history holds at least 5 records and more than 0.8 of the most
\* recent records (up to 10) are rejected.
C28_Amended ==
  mFresh =>
    LET n == Len(GetRecentContent(mStore, RecentLimit))
    IN /\ "too_conservative" \in TriggerNames(triggers)
            <=> (n >= 5 /\ 10 * RejectedRecent > 8 * n)
       /\ \A i \in 1..Len(triggers) :
            triggers[i].name = "too_conservative" => triggers[i].urgency = 70

\* C28 witness: a check over 9 of 10 records rejected returned the trigger.
C28_Witness ==
  /\ mFresh
  /\ Len(mStore) >= RecentLimit
  /\ RejectedRecent = 9
  /\ Trigger("too_conservative", 70) \in {triggers[i] : i \in 1..Len(triggers)}


\* how often topic t occurs among the 20 most recent records
RecentTopicCount(t) ==
  Cardinality({i \in 1..Min2(TopicLimit, Len(mStore)) : mStore[i].topic = t})

\* the largest count of a topic among the 20 most recent records (records
\* without a topic count for none), 0 when no record has a topic
MaxTopicCount ==
  LET counts == {RecentTopicCount(t) : t \in {"a", "b"}}
  IN CHOOSE n \in counts : \A k \in counts : k <= n

\* C29: the topic_repetition trigger is returned exactly when some topic
\* occurs at least 3 times among the 20 most recent records; its urgency is
\* min(0.8, 0.4 + 0.2 * (maxCount - 3)): 0.4 at 3, 0.6 at 4, 0.8 from 5 on.
C29_TopicRepetition ==
  mFresh =>
    /\ "topic_repetition" \in TriggerNames(triggers) <=> MaxTopicCount >= 3
    /\ \A i \in 1..Len(triggers) :
         triggers[i].name = "topic_repetition"
           => /\ triggers[i].urgency
                   = Min2(80, 40 + 20 * (MaxTopicCount - 3))
              /\ triggers[i].urgency
                   = CASE MaxTopicCount = 3 -> 40
                       [] MaxTopicCount = 4 -> 60
                       [] OTHER -> 80

\* C29 witness: a history of more than 20 records in which a topic occurs 4
\* times among the 20 most recent and more often in all: urgency 0.6.
C29_Witness ==
  /\ mFresh
  /\ Len(mStore) > TopicLimit
  /\ MaxTopicCount = 4
  /\ \E t \in {"a", "b"} : TopicCount(mStore, t) > 4
  /\ Trigger("topic_repetition", 60) \in {triggers[i] : i \in 1..Len(triggers)}

(***************************************************************************)
(* Claims about Personality (checked under SpecPers and SpecBold)          *)
(***************************************************************************)

InUnit(x) == x >= 0 /\ x <= 1000

C22_DriftPersisted ==
  pDrifts > 0 => pFile = ToDict(tension, boldness, depth, lastUpdate, driftRate)

(***************************************************************************)
(* Claims about the MemoryIndex and MemoryStorage (checked under SpecIdx)  *)
(***************************************************************************)

\* positions of the stored records that carry a vector
WithVector(entries) ==
  {i \in 1..Len(entries) : entries[i].embedding # NoVector}

\* similarity of the stored record at position i to a text
SimilarityTo(entries, i, text) ==
  CosineSimilarity(Embed(text), entries[i].embedding)

\* check_repetition has just returned or raised
AfterCheckRepetition == xResult.op = "check_repetition"

\* C15: check_repetition(text, threshold) returns (true, r) if and only if
\* some stored record has cosine similarity to text >= threshold, r being a
\* stored record of maximal similarity; otherwise it returns (false, none).
C15_RepetitionIffSimilar ==
  AfterCheckRepetition =>
    /\ ~xResult.raised
    /\ xResult.found
         <=> \E i \in WithVector(xEntries) :
               SimilarityTo(xEntries, i, xResult.query) >= xResult.threshold
    /\ xResult.found
         => \E i \in WithVector(xEntries) :
              /\ xEntries[i].id = xResult.entry
              /\ \A j \in WithVector(xEntries) :
                   SimilarityTo(xEntries, j, xResult.query)
                     <= SimilarityTo(xEntries, i, xResult.query)
    /\ ~xResult.found => xResult.entry = "none"

\* positions of the records search_similar scans: those with a vector among
\* the CandidateLimit most recent ones
Scanned(entries) ==
  {i \in WithVector(entries) : i <= CandidateLimit}

\* C15 witness: check_repetition at threshold 0.85 returned the older of two
\* scanned records, both similar enough, the newer at similarity 0.89.
C15_Witness ==
  /\ AfterCheckRepetition /\ ~xResult.raised
  /\ xResult.found
  /\ xResult.threshold = 85
  /\ Len(xEntries) >= 2
  /\ xEntries[2].id = xResult.entry
  /\ 1 \in Scanned(xEntries)
  /\ SimilarityTo(xEntries, 1, xResult.query) = 89

\* C16: no memory operation raises when the embedding backend is unavailable
\* or an embedding fails: add persists the record, search_similar returns an
\* empty list and check_repetition returns (false, none).
C16_DegradesQuietly ==
  /\ ~xResult.raised
  /\ xResult.op = "add"
       => \E i \in 1..Len(xEntries) : xEntries[i].id = xResult.id
  /\ (xResult.op = "search_similar" /\ ~xResult.embedded)
       => xResult.result = << >>
  /\ (xResult.op = "check_repetition" /\ ~xResult.embedded)
       => (~xResult.found /\ xResult.entry = "none")

\* C19: a record once stored under an id keeps its timestamp, kind and
\* payload and is never removed, whatever is added later.
C19_RecordsImmutable ==
  \A i \in 1..Len(xFirst) :
    \E j \in 1..Len(xEntries) :
      /\ xEntries[j].id = xFirst[i].id
      /\ xEntries[j].timestamp = xFirst[i].timestamp
      /\ xEntries[j].entry_type = xFirst[i].entry_type
      /\ xEntries[j].text = xFirst[i].text

\* search_similar has just returned, the query embedded
AfterSearchSimilar ==
  xResult.op = "search_similar" /\ ~xResult.raised /\ xResult.embedded

\* a record is of the kind a search asks for
OfKind(r, type) == type = AnyType \/ r.entry_type = type

\* positions of the candidates of a search for a kind: the records carrying
\* a vector among the CandidateLimit most recent records of the kind
Candidates(entries, type) ==
  {i \in WithVector(entries) :
     /\ OfKind(entries[i], type)
     /\ Cardinality({j \in 1..i : OfKind(entries[j], type)}) <= CandidateLimit}

\* the ids of the records a search returned
ReturnedIds(result) == {result[k][1] : k \in 1..Len(result)}

\* C30: search_similar(query, kind, threshold, top_k) returns at most top_k
\* (record, similarity) pairs, each a distinct candidate of the requested
\* kind with its similarity to the query, which is >= threshold, in
\* non-increasing order of similarity; a candidate whose similarity is >=
\* threshold (equality included) is left out only when top_k pairs are
\* returned, none of them less similar than it. The candidates are the
\* stored vectors of the kind within the candidate bound of the scan.
C30_TopKMostSimilar ==
  AfterSearchSimilar =>
    LET res == xResult.result
        cands == Candidates(xEntries, xResult.type)
    IN /\ Len(res) <= xResult.top_k
       /\ \A k \in 1..Len(res) :
            /\ \E i \in cands :
                 /\ xEntries[i].id = res[k][1]
                 /\ res[k][2] = SimilarityTo(xEntries, i, xResult.query)
            /\ res[k][2] >= xResult.threshold
            /\ \A l \in 1..Len(res) : res[l][1] = res[k][1] => l = k
       /\ \A k \in 1..(Len(res) - 1) : res[k][2] >= res[k + 1][2]
       /\ \A i \in cands :
            (/\ xEntries[i].id \notin ReturnedIds(res)
             /\ SimilarityTo(xEntries, i, xResult.query) >= xResult.threshold)
              => /\ Len(res) = xResult.top_k
                 /\ \A k \in 1..Len(res) :
                      SimilarityTo(xEntries, i, xResult.query) <= res[k][2]

\* C30 witness: a search at threshold 0.8 with top_k 2 returned two records,
\* the older at similarity 0.98 first, then the newest at similarity 0.8,
\* equal to the threshold.
C30_Witness ==
  /\ AfterSearchSimilar
  /\ xResult.threshold = 80 /\ xResult.top_k = 2
  /\ Len(xResult.result) = 2
  /\ xResult.result[1][2] = 98
  /\ xResult.result[2] = << xEntries[1].id, 80 >>

\* C31: within one run_cycle the phases are invoked in the order observe,
\* think, form_intent, act, reflect, each at most once, the phase awaited
\* being the last one invoked (every earlier one has returned); a cycle that
\* returned a Reflection with should_retry = true has invoked each phase
\* exactly once.
C31_PhasesInOrder ==
  /\ Len(cyPhases) <= Len(Phases)
  /\ \A k \in 1..Len(cyPhases) : cyPhases[k] = Phases[k]
  /\ cyPc \in PhaseSet => cyPhases[Len(cyPhases)] = cyPc
  /\ (cyPc = "returned" /\ cyReflection.should_retry) => cyPhases = Phases

\* C31 witness: a second run_cycle is under way after a first one returned,
\* and the current one returned a Reflection asking for a retry.
C31_Witness ==
  /\ cyCount = 2
  /\ cyPc = "returned"
  /\ cyReflection.should_retry
  /\ cyPhases = Phases

\* the pipeline positions before position i whose name has an implementation
RegisteredBefore(i) == {k \in 1..(i - 1) : Pipeline[k] \in pAgents}

\* the positions of the units invoked so far in this run
InvokedPositions == {pInvoked[k] : k \in 1..Len(pInvoked)}

\* the loop stands at a pipeline name that has no implementation
AtMissingName ==
  pPc = "loop" /\ pIdx <= PipeLen /\ Pipeline[pIdx] \notin pAgents

\* C32: a pipeline name without a registered implementation is skipped
\* without failing the run and with the blackboard unchanged, and the loop
\* goes on to the next name; as long as no unit has raised, the units invoked
\* are exactly the registered ones at the positions passed, in pipeline order.
C32_SkipMissing ==
  /\ [][ AtMissingName
           => /\ pPc' = "loop" /\ pIdx' = pIdx + 1
              /\ pShared' = pShared
              /\ pFailedAt' = pFailedAt
              /\ pInvoked' = pInvoked ]_vars
  /\ [] ( (pPc # "idle" /\ pFailedAt = 0)
            => /\ \A k \in 1..(Len(pInvoked) - 1) : pInvoked[k] < pInvoked[k + 1]
               /\ InvokedPositions
                    = RegisteredBefore(IF pPc = "await" THEN pIdx + 1 ELSE pIdx) )

\* C32 witness: a run returned without failure in which the third name had
\* no implementation and the units after it were invoked
C32_Witness ==
  /\ pPc = "returned" /\ pFailedAt = 0
  /\ Pipeline[3] \notin pAgents
  /\ pInvoked = <<1, 2, 4, 5, 6>>
  /\ pShared # pCtx

\* the context overlaid with the values the units of the run returned
Overlay(ctx, written) ==
  [k \in Keys |-> IF written[k] # 0 THEN written[k] ELSE ctx[k]]

\* C33: as long as no unit has raised, the blackboard is the initial context
\* overlaid with the units' returned updates, the last value returned for a
\* key replacing earlier ones; a unit is invoked with that blackboard, and a
\* unit returning something other than a map leaves it unchanged.
C33_LaterWriteWins ==
  /\ [] ( (pPc # "idle" /\ pFailedAt = 0)
            => /\ pShared = Overlay(pCtx, pLastWrite)
               /\ pPc = "await" => pAtInvoke = pShared )
  /\ [][ (pPc = "await" /\ pPc' = "loop" /\ pFailedAt' = 0
            /\ pLastWrite' = pLastWrite)
           => pShared' = pShared ]_vars

\* C33 witness: a run returned without failure in which a unit replaced the
\* value another unit had written over the context's value for the same key
C33_Witness ==
  /\ pPc = "returned" /\ pFailedAt = 0
  /\ Len(pInvoked) >= 2
  /\ pCtx["k1"] = 1 /\ pAtInvoke["k1"] = 2 /\ pShared["k1"] = 1
  /\ pCtx["k2"] = 1 /\ pShared["k2"] = 1 /\ pLastWrite["k2"] = 0

\* C38: execute never adds, removes or rebinds a key of the context map the
\* caller passed in; the merges go to the map that is returned.
C38_ContextUntouched ==
  [][ (pPc # "idle" /\ pPc' # "idle" /\ ~(pPc = "returned" /\ pPc' = "loop"))
        => pCtx' = pCtx ]_vars

\* C38 witness: a run that stopped at a failing unit returned a blackboard
\* that differs from the caller's context
C38_Witness ==
  /\ pPc = "returned" /\ pFailedAt # 0
  /\ pShared # pCtx

\* the slot under evaluation holds an enabled task that is due
SlotDue ==
  /\ loopPc = "eval" /\ idx <= NTasks
  /\ tasks[idx].enabled
  /\ (tasks[idx].next_run = None \/ now >= tasks[idx].next_run)

\* a step of the for loop over the tasks
IsEvalStep == loopPc = "eval" /\ <<loopPc, idx>>' # <<loopPc, idx>>

\* C34: when check_state() raises in a tick, the tick goes on: the monitor
\* step changes no task, every enabled due task's callback is started when
\* its slot is evaluated in that tick, and the tick ends with every slot
\* evaluated.
C34_MonitorRaiseAbsorbed ==
  [][ /\ (IsTickStartStep /\ urgency' = MonitorRaised)
           => /\ tasks' = tasks
              /\ running'
      /\ (urgency = MonitorRaised /\ SlotDue /\ IsEvalStep)
           => /\ idx \in started'
              /\ cbState'[idx] = "running"
      /\ (urgency = MonitorRaised /\ loopPc = "eval" /\ loopPc' = "sleep")
           => evaluated = TaskIds ]_vars

\* C34 witness: in a tick whose check_state raised, the callbacks of both
\* tasks were started
C34_Witness ==
  /\ urgency = MonitorRaised
  /\ loopPc = "callback" /\ idx = 2
  /\ started = {1, 2}

\* C35: preemption has no cooldown: a tick that begins with a trigger of
\* urgency >= 0.6 and the main task enabled sets the main task's next_run to
\* the tick's time whatever its last_run and interval, and the main task's
\* callback is started, once, when its slot is evaluated in that tick.
C35_NoCooldown ==
  [][ /\ (IsTickStartStep /\ urgency' >= PreemptionThreshold
            /\ tasks[ContentIdx].enabled)
           => tasks'[ContentIdx].next_run = now'
      /\ (IsEvalStep /\ idx = ContentIdx /\ urgency >= PreemptionThreshold
            /\ tasks[ContentIdx].enabled)
           => /\ ContentIdx \notin started
              /\ ContentIdx \in started'
              /\ cbState'[ContentIdx] = "running" ]_vars

\* C35 witness: the main task's callback is running in a tick with an urgent
\* trigger although less than its interval has passed since its last run
C35_Witness ==
  /\ loopPc = "callback" /\ idx = ContentIdx
  /\ cbState[ContentIdx] = "running"
  /\ urgency >= PreemptionThreshold
  /\ tasks[ContentIdx].last_run # None
  /\ now < tasks[ContentIdx].last_run + tasks[ContentIdx].interval

\* the task is enabled and its next_run has come
Due(ts, i, t) ==
  ts[i].enabled /\ ts[i].next_run # None /\ ts[i].next_run <= t

\* a call of enable_task(i) or disable_task(i): the task record changes while
\* the loop stays where it is
IsToggleStep(i) == tasks'[i] # tasks[i] /\ loopPc' = loopPc /\ idx' = idx

\* C36: a disabled task's callback is never started, by its schedule or by
\* preemption: disable_task clears next_run, the monitor step leaves a
\* disabled main task alone, enable_task sets next_run to the time of
\* enabling, and a task that is due stays due as long as it is enabled until
\* its callback, started in a tick that found it due on that next_run, returns.
C36_DisabledNeverRun ==
  [][ \A i \in TaskIds :
        /\ (i \in started' /\ i \notin started) => tasks[i].enabled
        /\ (IsToggleStep(i) /\ ~tasks'[i].enabled) => tasks'[i].next_run = None
        /\ (IsToggleStep(i) /\ tasks'[i].enabled) => tasks'[i].next_run = clock'
        /\ (IsTickStartStep /\ ~tasks[ContentIdx].enabled)
             => tasks'[ContentIdx] = tasks[ContentIdx]
        /\ (Due(tasks, i, clock) /\ tasks'[i].enabled /\ ~Due(tasks', i, clock'))
             => /\ IsReturnStep(i)
                /\ tasks[i].next_run <= now ]_vars

\* C37: at most one tick loop exists at any time: a loop exists exactly
\* while the scheduler is running, so start() on a running scheduler creates
\* none and a start() after stop() creates exactly one.
C37_OneLoop ==
  /\ aLoops \in {0, 1}
  /\ aRunning <=> aLoops = 1
  /\ aLoops = 1 <=> aPc \notin {"none", "done"}

\* C37 witness: a loop created by a start() that followed a stop(): it has
\* not begun its first tick, and a callback ran in an earlier loop
C37_Witness ==
  /\ aLoops = 1
  /\ aPc = "created"
  /\ \E i \in AdvIds : aRan[i]

(***************************************************************************)
(* Claims about the RateLimiter (checked under SpecRate)                   *)
(***************************************************************************)

\* the number of slots granted at the clock values a..b
RECURSIVE GrantedIn(_, _)
GrantedIn(a, b) ==
  IF a > b THEN 0 ELSE rGranted[a] + GrantedIn(a + 1, b)

\* the number of requests recorded with the time t
RecordedAt(times, t) == Cardinality({k \in 1..Len(times) : times[k] = t})

\* an acquire() call that returned true
IsGrantStep ==
  rLast'.ok /\ <<rLast, requestTimes>>' # <<rLast, requestTimes>>

\* C39: whatever the interleaving of acquire() and wait_for_slot() callers,
\* the request list never holds more than max_requests entries, an acquire()
\* that returns true has recorded a slot with the current time, and no more
\* than max_requests slots are granted in any span of window_seconds (a span
\* s..s+window_seconds, both ends included).
C39_RateLimited ==
  /\ [] (Len(requestTimes) <= MaxRequests)
  /\ [] (\A s \in RateTimes :
           GrantedIn(s, IF s + WindowSeconds < MaxRateClock
                          THEN s + WindowSeconds ELSE MaxRateClock)
             <= MaxRequests)
  /\ [][ IsGrantStep
           => /\ requestTimes' # << >>
              /\ requestTimes'[Len(requestTimes')] = rClock
              /\ RecordedAt(requestTimes', rClock)
                   = RecordedAt(requestTimes, rClock) + 1 ]_vars

\* C39 witness: max_requests slots were granted at time 0 and the next one
\* once the window had passed, while a caller of wait_for_slot is asleep
C39_Witness ==
  /\ rGranted[0] = MaxRequests
  /\ rClock = WindowSeconds + 1
  /\ rGranted[rClock] = 1
  /\ rLast.ok
  /\ \E c \in Callers : rPc[c] = "sleep"

====
